---- MODULE Spec2Model ----
(***************************************************************************)
(* A model of src/src/App.js: the retrying Gemini API client               *)
(* (callGeminiApi), the Firebase auth listener, the Firestore snapshot     *)
(* effect and the store-writing handlers of the App component.             *)
(***************************************************************************)
EXTENDS Integers, Sequences, FiniteSets, TLC

VARIABLES
  call,       \* the locals of one invocation of callGeminiApi and where it is suspended
  history,    \* the responses the invocation's fetch requests have settled with, in order
  twin,       \* a second invocation of callGeminiApi, run beside `call` (SpecPair)
  lastPair,   \* the responses the last attempts of `call` and `twin` settled with (SpecPair)
  app,              \* the module-level Firebase app was initialised (lines 25-38)
  initialAuthToken, \* __initial_auth_token is defined (line 23)
  mounted,          \* "new" (rendered, effects not yet run), "mounted" or "unmounted"
  authUser,         \* the signed-in user of the auth instance, NullUser when none
  authQueue,        \* the users the auth instance has still to report to the listener
  signIn,           \* where the listener callback that found no user is suspended
  sessionEnds,      \* how often the session has ended
  endedSession,     \* the user whose session the listener has seen end, until a user is reported again
  userId, isAuthReady, dbInstance,   \* useState cells of App (828-830)
  savedIdeas, savedContacts,         \* useState cells of App (826-827)
  subs,             \* the live onSnapshot subscriptions
  effRun,           \* the runs of the snapshot effect that subscribed
  ideasInbox, contactsInbox,  \* the snapshots not yet handed to the callbacks
  store,            \* the documents of the store
  nextId,           \* the documents created so far
  opLog,            \* the addDoc, updateDoc and deleteDoc calls issued so far
  auto,             \* runAutomatedLeadSearch in flight: its closure and what is left to write
  imp,              \* importCountyProperties in flight: its closure and what is left to write
  isLoading, isGeneratingOffer, isAutoGenerating,  \* useState cells of App (816, 821, 822)
  isMarketAnalysisLoading,                         \* useState cell of App (847)
  results, error,   \* useState cells of App (815, 817)
  showOfferLetterModal, offerLetterContent,  \* useState cells of App (819, 820)
  marketTrendAnalysis,                       \* useState cell of App (846)
  compsData,        \* useState cell of App (848): the number of comps in the list
  showIdeaDeleteModal, showContactDeleteModal,  \* useState cells of App (834, 836)
  ideaToDelete, contactToDelete,  \* useState cells of App (835, 837): the id, 0 for null
  running,          \* the invocations in flight of findLeads, generateOfferLetter, runMarketAnalysis
  outstanding,      \* the handler invocations suspended at an await of the store
  purchasePrice, salesPrice, closingCosts, rehabCosts, holdingCosts,  \* useState cells of App (840-844)
  profit, roi,      \* useState cells of FinancialAnalysis (475, 476); roi in hundredths of a percent
  propertyDetails,  \* useState cell of App (811): the description in the form
  details,          \* the argument details of the findLeads invocation that started last
  replyText,        \* a text to be read as JSON
  parsedResults,    \* what reading replyText gives, bare and in a code fence
  toast,            \* the last message showToast has put on the page
  lastOp            \* the operation that ended last, and how

apiVars == <<call, history, twin, lastPair>>

authVars == <<app, initialAuthToken, mounted, authUser, authQueue, signIn, sessionEnds, endedSession>>

viewVars == <<userId, isAuthReady, dbInstance, savedIdeas, savedContacts, subs, effRun,
              ideasInbox, contactsInbox>>

storeVars == <<store, nextId, opLog>>

handlerVars == <<auto, imp, isAutoGenerating>>

aiVars == <<isLoading, isGeneratingOffer, isMarketAnalysisLoading, results, error,
            showOfferLetterModal, offerLetterContent, marketTrendAnalysis, compsData, running>>

modalVars == <<showIdeaDeleteModal, ideaToDelete, showContactDeleteModal, contactToDelete>>

noteVars == <<toast, lastOp>>

calcVars == <<purchasePrice, salesPrice, closingCosts, rehabCosts, holdingCosts, profit, roi>>

formVars == <<propertyDetails, details>>

parseVars == <<replyText, parsedResults>>

uiVars == <<aiVars, modalVars, outstanding, noteVars, calcVars, formVars, parseVars>>

syncVars == <<authVars, viewVars, storeVars, handlerVars, uiVars>>

vars == <<apiVars, syncVars>>

(***************************************************************************)
(* The state of the App component besides callGeminiApi: the auth          *)
(* listener, the snapshot effect, the store and the handlers that write    *)
(* to it, as they are after construction.                                  *)
(***************************************************************************)
\* userId is null until a user is reported; in a template string it reads "null".
NullUser == "null"

IdleAuto == [pc |-> "idle", userId |-> NullUser, db |-> FALSE, left |-> 0]

IdleImport == [pc |-> "idle", userId |-> NullUser, left |-> 0]

\* The useState defaults of lines 826-830 and an untouched environment.
ViewAtRest ==
  /\ userId = NullUser
  /\ isAuthReady = FALSE
  /\ dbInstance = FALSE
  /\ savedIdeas = {}
  /\ savedContacts = {}
  /\ subs = {}
  /\ effRun = 0
  /\ ideasInbox = <<>>
  /\ contactsInbox = <<>>
  /\ store = {}
  /\ nextId = 1
  /\ opLog = {}
  /\ auto = IdleAuto
  /\ imp = IdleImport
  /\ mounted = "new"
  /\ authQueue = <<>>
  /\ signIn = "none"
  /\ sessionEnds = 0
  /\ endedSession = NullUser

SyncAtRest ==
  /\ ViewAtRest
  /\ app = TRUE
  /\ initialAuthToken = FALSE
  /\ authUser = NullUser

(***************************************************************************)
(* JavaScript values, as far as the response envelope needs them.          *)
(***************************************************************************)
JUndef == [jt |-> "undefined", s |-> "", v |-> <<>>]

JNull == [jt |-> "null", s |-> "", v |-> <<>>]

JStr(str) == [jt |-> "string", s |-> str, v |-> <<>>]

\* An array; `elems` is the sequence of its elements.
JArr(elems) == [jt |-> "array", s |-> "", v |-> elems]

\* An object; `fields` is a sequence of <<name, value>> pairs.
JObj(fields) == [jt |-> "object", s |-> "", v |-> fields]

\* x.name: the value of the property, undefined when the object has none.
Get(x, name) ==
  IF x.jt = "object" /\ \E k \in 1..Len(x.v) : x.v[k][1] = name
  THEN LET k == CHOOSE j \in 1..Len(x.v) : x.v[j][1] = name IN x.v[k][2]
  ELSE JUndef

\* x[k] for an array x (k counted from 0, as in the source).
At(x, k) == IF x.jt = "array" /\ k + 1 <= Len(x.v) THEN x.v[k + 1] ELSE JUndef

\* x.length
Length(x) == IF x.jt = "array" THEN Len(x.v) ELSE 0

\* JavaScript truthiness of the values above.
Truthy(x) == x.jt \in {"array", "object"} \/ (x.jt = "string" /\ x.s # "")

\* The functions of App that call callGeminiApi and keep an in-flight flag of
\* their own; runAutomatedLeadSearch is the fourth, followed in `auto`.
AiControls == {"findLeads", "generateOfferLetter", "runMarketAnalysis"}

NoToast == [message |-> "", isError |-> FALSE]

\* An operation that has ended, and the cause of its failure if it failed.
Outcome(op, failed, cause) == [op |-> op, failed |-> failed, cause |-> cause]

NoOp == Outcome("none", FALSE, "")

\* The useState defaults of lines 815-822, 834-837 and 846-848, and nothing in flight.
ControlsAtRest ==
  /\ isLoading = FALSE
  /\ isGeneratingOffer = FALSE
  /\ isAutoGenerating = FALSE
  /\ isMarketAnalysisLoading = FALSE
  /\ results = JNull
  /\ error = JNull
  /\ showOfferLetterModal = FALSE
  /\ offerLetterContent = JStr("")
  /\ marketTrendAnalysis = JStr("")
  /\ compsData = 0
  /\ running = [c \in AiControls |-> 0]
  /\ showIdeaDeleteModal = FALSE
  /\ ideaToDelete = 0
  /\ showContactDeleteModal = FALSE
  /\ contactToDelete = 0
  /\ outstanding = <<>>
  /\ toast = NoToast
  /\ lastOp = NoOp
  /\ purchasePrice = "" /\ salesPrice = "" /\ closingCosts = "" /\ rehabCosts = ""
  /\ holdingCosts = ""
  /\ profit = 0
  /\ roi = 0
  /\ propertyDetails = ""
  /\ details = ""

\* No text has been read.
ParserAtRest ==
  /\ replyText = JUndef
  /\ parsedResults = <<>>

UiAtRest == ControlsAtRest /\ ParserAtRest

(***************************************************************************)
(* What one fetch request of callGeminiApi can settle with.                *)
(***************************************************************************)
NoBody == JUndef

\* The body of a 2xx response that is not JSON: response.json() rejects.
NotJson == [jt |-> "notjson", s |-> "", v |-> <<>>]

Text == "analysis"

Part(fields) == JObj(fields)

Envelope(parts) ==
  JObj(<< <<"candidates", JArr(<< JObj(<< <<"content", JObj(<< <<"parts", parts>> >>)>> >>) >>)>> >>)

\* The response envelopes of the endpoint: {candidates:[{content:{parts:[{text}]}}]}
\* and the shapes that fall short of it at each level.
EnvNoCandidates == JObj(<<>>)

EnvEmptyCandidates == JObj(<< <<"candidates", JArr(<<>>)>> >>)

EnvNoContent == JObj(<< <<"candidates", JArr(<< JObj(<< <<"finishReason", JStr("SAFETY")>> >>) >>)>> >>)

EnvNoParts == JObj(<< <<"candidates", JArr(<< JObj(<< <<"content", JObj(<<>>)>> >>) >>)>> >>)

EnvEmptyParts == Envelope(JArr(<<>>))

EnvNoText == Envelope(JArr(<< Part(<< <<"inlineData", JStr("bytes")>> >>) >>))

EnvText == Envelope(JArr(<< Part(<< <<"text", JStr(Text)>> >>) >>))

EnvEmptyText == Envelope(JArr(<< Part(<< <<"text", JStr("")>> >>) >>))

Envelopes ==
  {EnvNoCandidates, EnvEmptyCandidates, EnvNoContent, EnvNoParts, EnvEmptyParts,
   EnvNoText, EnvText, EnvEmptyText}

\* fetch rejects (network exception), or resolves with a response.
Rejected == [kind |-> "reject", status |-> 0, body |-> NoBody]

Http(status, body) == [kind |-> "response", status |-> status, body |-> body]

Responses ==
  {Rejected, Http(429, NoBody), Http(500, NoBody), Http(200, NotJson)}
    \cup {Http(200, e) : e \in Envelopes}

\* response.ok
ResponseOk(r) == r.status >= 200 /\ r.status <= 299

(***************************************************************************)
(* callGeminiApi (App.js 865-904), one step per stretch of code between    *)
(* two awaits.  A call record holds the locals: i, delay, and what the     *)
(* invocation has done so far (requests issued, timers waited for).        *)
(***************************************************************************)
maxRetries == 5

InitialDelay == 1000

NoResult == [kind |-> "none", value |-> JUndef]

IdleCall ==
  [pc |-> "idle", i |-> 0, delay |-> InitialDelay, requests |-> 0, waits |-> <<>>,
   result |-> NoResult]

\* The errors the code throws or passes on, by message.
ApiError == JStr("API error")

FormatError == JStr("Unexpected API response format")

NetworkError == JStr("Failed to fetch")

JsonError == JStr("Unexpected token")

\* The test of lines 889-891 on the parsed body.
EnvelopeAccepted(result) ==
  /\ Truthy(Get(result, "candidates"))
  /\ Length(Get(result, "candidates")) > 0
  /\ Truthy(Get(At(Get(result, "candidates"), 0), "content"))
  /\ Truthy(Get(Get(At(Get(result, "candidates"), 0), "content"), "parts"))
  /\ Length(Get(Get(At(Get(result, "candidates"), 0), "content"), "parts")) > 0

\* result.candidates[0].content.parts[0].text (line 892)
FirstText(result) ==
  Get(At(Get(Get(At(Get(result, "candidates"), 0), "content"), "parts"), 0), "text")

\* The head of the for loop (line 868): the next request is issued, or the loop
\* is left and the function ends without a return statement.
LoopHead(cs) ==
  IF cs.i < maxRetries
  THEN [cs EXCEPT !.pc = "fetch", !.requests = @ + 1]
  ELSE [cs EXCEPT !.pc = "done", !.result = [kind |-> "return", value |-> JUndef]]

\* const callGeminiApi = async (payload) => { let delay = 1000; ... for (let i = 0; ...
Enter == LoopHead([IdleCall EXCEPT !.i = 0, !.delay = InitialDelay])

\* A variant of RateLimitRetry without the test on i: a 429 is waited out on
\* every attempt, the last one included.
RateLimitRetryOnLast(cs, r) == r.status = 429

\* The test of line 879: a rate-limit response that is waited out in place.
RateLimitRetry(cs, r) == r.status = 429 /\ cs.i < maxRetries - 1

\* await new Promise(resolve => setTimeout(resolve, delay)) of line 881 or 900.
StartTimer(cs, where) == [cs EXCEPT !.pc = where, !.waits = Append(@, cs.delay)]

Return(cs, value) == [cs EXCEPT !.pc = "done", !.result = [kind |-> "return", value |-> value]]

\* A variant of Catch that fails fast: the error is passed on at once unless it
\* follows a rate-limit response.
CatchFailFast(cs, e) == [cs EXCEPT !.pc = "done", !.result = [kind |-> "throw", value |-> e]]

\* catch (e) of lines 896-902.
Catch(cs, e) ==
  IF cs.i = maxRetries - 1
  THEN [cs EXCEPT !.pc = "done", !.result = [kind |-> "throw", value |-> e]]
  ELSE StartTimer(cs, "sleepCatch")

\* Lines 872-895 once the fetch of attempt i has settled with r.
Settle(cs, r) ==
  IF r.kind = "reject" THEN Catch(cs, NetworkError)
  ELSE IF ~ResponseOk(r)
    THEN IF RateLimitRetry(cs, r) THEN StartTimer(cs, "sleep429") ELSE Catch(cs, ApiError)
  ELSE IF r.body.jt = "notjson" THEN Catch(cs, JsonError)
  ELSE IF EnvelopeAccepted(r.body) THEN Return(cs, FirstText(r.body))
  ELSE Catch(cs, FormatError)

\* A variant of Doubled with a linear backoff.
Lengthened(d) == d + InitialDelay

\* delay *= 2 (lines 882 and 901)
Doubled(d) == d * 2

\* A variant of Wake429 without the continue of line 883: the attempt goes on to
\* the throw of line 885 and the catch block doubles the delay a second time.
Wake429Twice(cs) == LoopHead([cs EXCEPT !.delay = Doubled(Doubled(@)), !.i = @ + 1])

\* The timer of line 881 has fired: delay *= 2; continue.
Wake429(cs) == LoopHead([cs EXCEPT !.delay = Doubled(@), !.i = @ + 1])

\* The timer of line 900 has fired: delay *= 2, and the loop body ends.
WakeCatch(cs) == LoopHead([cs EXCEPT !.delay = Doubled(@), !.i = @ + 1])

Wake(cs) == IF cs.pc = "sleep429" THEN Wake429(cs) ELSE WakeCatch(cs)

Sleeping(cs) == cs.pc \in {"sleep429", "sleepCatch"}

(***************************************************************************)
(* One invocation of callGeminiApi against an endpoint that answers each   *)
(* request with any response.                                              *)
(***************************************************************************)
NoPair == <<Rejected, Rejected>>

ApiAtRest ==
  /\ call = IdleCall
  /\ history = <<>>
  /\ twin = IdleCall
  /\ lastPair = NoPair

InitApi == ApiAtRest /\ SyncAtRest /\ UiAtRest

\* A caller invokes callGeminiApi(payload): the first request is issued.
Invoke ==
  /\ call.pc \in {"idle", "done"}
  /\ call' = Enter
  /\ history' = <<>>
  /\ UNCHANGED <<twin, lastPair, syncVars>>

\* The pending fetch settles.
FetchSettles ==
  /\ call.pc = "fetch"
  /\ \E r \in Responses :
       /\ call' = Settle(call, r)
       /\ history' = Append(history, r)
  /\ UNCHANGED <<twin, lastPair, syncVars>>

\* The pending backoff timer fires.
TimerFires ==
  /\ Sleeping(call)
  /\ call' = Wake(call)
  /\ UNCHANGED <<history, twin, lastPair, syncVars>>

NextApi == Invoke \/ FetchSettles \/ TimerFires

SpecApi == InitApi /\ [][NextApi]_vars

(***************************************************************************)
(* Two invocations side by side, their attempts answered in step by        *)
(* responses of the same case.                                             *)
(***************************************************************************)
\* The first part of the first candidate of a parsed body.
FirstPart(b) == At(Get(Get(At(Get(b, "candidates"), 0), "content"), "parts"), 0)

\* The body has the shape {candidates:[{content:{parts:[{text}]}}]}.
EnvelopeMatches(b) == Get(FirstPart(b), "text").jt = "string"

\* A failed attempt: a network exception, a non-2xx status (429 or other), or a
\* 2xx response whose body is no JSON or has no first part of a first candidate.
FailedAttempt(r) ==
  \/ r.kind = "reject"
  \/ ~ResponseOk(r)
  \/ r.body.jt = "notjson"
  \/ FirstPart(r.body).jt = "undefined"

SameCase(rA, rB) == (FailedAttempt(rA) /\ FailedAttempt(rB)) \/ rA = rB

InitPair == ApiAtRest /\ SyncAtRest /\ UiAtRest

PairInvoke ==
  /\ call.pc = "idle" \/ (call.pc = "done" /\ twin.pc = "done")
  /\ call' = Enter
  /\ twin' = Enter
  /\ lastPair' = NoPair
  /\ UNCHANGED <<history, syncVars>>

PairSettles ==
  /\ call.pc = "fetch" /\ twin.pc = "fetch"
  /\ \E rA \in Responses, rB \in Responses :
       /\ SameCase(rA, rB)
       /\ call' = Settle(call, rA)
       /\ twin' = Settle(twin, rB)
       /\ lastPair' = <<rA, rB>>
  /\ UNCHANGED <<history, syncVars>>

PairTimersFire ==
  /\ Sleeping(call) \/ Sleeping(twin)
  /\ call' = IF Sleeping(call) THEN Wake(call) ELSE call
  /\ twin' = IF Sleeping(twin) THEN Wake(twin) ELSE twin
  /\ UNCHANGED <<history, lastPair, syncVars>>

NextPair == PairInvoke \/ PairSettles \/ PairTimersFire

SpecPair == InitPair /\ [][NextPair]_vars

(***************************************************************************)
(* Properties of callGeminiApi.                                            *)
(***************************************************************************)
RECURSIVE SumSeq(_)
SumSeq(q) == IF q = <<>> THEN 0 ELSE Head(q) + SumSeq(Tail(q))

AllFailed(h) == \A k \in 1..Len(h) : FailedAttempt(h[k])

\* C1: one invocation issues at most 5 fetch requests, and when 5 attempts have
\* failed (429, other non-2xx, network exception, malformed envelope, in any mix)
\* it has raised an error right after the 5th: no 6th request, no wait after it.
C1_AtMostFiveAttempts ==
  /\ call.requests <= 5
  /\ Len(history) <= 5
  /\ (Len(history) = 5 /\ AllFailed(history)) =>
        /\ call.pc = "done"
        /\ call.result.kind = "throw"
        /\ call.requests = 5
        /\ Len(call.waits) = 4

C1_Witness ==
  /\ Len(history) = 5 /\ AllFailed(history)
  /\ history[5].status = 429
  /\ history[1].kind = "reject"
  /\ history[2].status = 500
  /\ history[3].body = EnvEmptyCandidates
  /\ call.result.kind = "throw"

\* C2: the wait after failed attempt k (k = 1..4) is 1000 * 2^(k-1) ms, there is
\* exactly one wait between two consecutive attempts, and delay has been doubled
\* once per failed attempt, whatever the failure.
C2_BackoffDoubles ==
  /\ \A k \in 1..Len(call.waits) : call.waits[k] = 1000 * 2^(k - 1)
  /\ Len(call.waits) <= 4
  /\ call.pc = "fetch" => Len(call.waits) = call.requests - 1 /\ call.delay = 1000 * 2^Len(history)
  /\ Sleeping(call) => Len(call.waits) = call.requests /\ call.delay = 1000 * 2^(Len(history) - 1)
  /\ (call.pc # "idle" /\ AllFailed(history)) => Len(call.waits) = IF Len(history) = 5 THEN 4 ELSE Len(history)

C2_Witness ==
  /\ call.waits = <<1000, 2000, 4000, 8000>>
  /\ call.pc = "fetch"
  /\ history[1].status = 429 /\ history[2].status = 500
  /\ history[3].kind = "reject" /\ history[4].status = 429

\* C3: when the first k attempts fail (0 <= k <= 4) and attempt k+1 is answered
\* by a well-formed 2xx response, the invocation has returned that response's
\* text after k retries and 1000 * (2^k - 1) ms of backoff, with k+1 requests.
C3_SuccessAfterRetries ==
  (/\ Len(history) >= 1
   /\ AllFailed(SubSeq(history, 1, Len(history) - 1))
   /\ ResponseOk(history[Len(history)])
   /\ EnvelopeMatches(history[Len(history)].body))
  => LET k == Len(history) - 1 IN
       /\ call.pc = "done"
       /\ call.result = [kind |-> "return", value |-> FirstText(history[k + 1].body)]
       /\ call.requests = k + 1
       /\ Len(call.waits) = k
       /\ SumSeq(call.waits) = 1000 * (2^k - 1)

C3_Witness ==
  /\ history = <<Http(429, NoBody), Http(429, NoBody), Http(200, EnvText)>>
  /\ call.result.value = JStr(Text)
  /\ SumSeq(call.waits) = 3000

Obs(cs) == [requests |-> cs.requests, waits |-> cs.waits, outcome |-> cs.result.kind,
            ended |-> cs.pc = "done"]

\* C4: two invocations whose attempts differ only in the kind of each failure
\* issue the same number of requests, wait the same delays and end the same way;
\* a non-429 error on a non-final attempt is retried after the same backoff as a 429.
C4_FailureKindsAlike ==
  /\ Obs(call) = Obs(twin)
  /\ (FailedAttempt(lastPair[1]) /\ call.pc = "done") => call.requests = maxRetries

C4_Witness ==
  /\ lastPair = <<Http(429, NoBody), Http(500, NoBody)>>
  /\ call.pc = "sleep429" /\ twin.pc = "sleepCatch"
  /\ call.waits = <<1000, 2000, 4000>> /\ twin.waits = call.waits

\* C5: the invocation returns normally only with the text of the first part of
\* the first candidate of a 2xx response of the shape
\* {candidates:[{content:{parts:[{text}]}}]}; any other envelope ends in an error.
C5_ReturnsOnlyText ==
  (call.pc = "done" /\ call.result.kind = "return") =>
     /\ Len(history) >= 1
     /\ ResponseOk(history[Len(history)])
     /\ EnvelopeMatches(history[Len(history)].body)
     /\ call.result.value = FirstText(history[Len(history)].body)

(***************************************************************************)
(* The store: documents of the collections                                 *)
(* artifacts/{appId}/users/{path}/ideas and .../contacts.                  *)
(***************************************************************************)
Uids == {"u1", "u2"}

\* statusColors' keys, the options of the status select (lines 391-399).
Statuses == {"New", "Contacted", "Offer Made", "Under Contract", "Sold"}

MaxDocs == 2

MaxPending == 2

MaxSessionEnds == 1

MaxAutoLeads == 1

\* A document of an ideas collection: the id the store gave it, the collection
\* it is in and, of its fields, propertyDetails, source and status ("-": the
\* document has no such field).  Leads with a source have no generatedResults.
\* Where the text of generatedResults is followed it is in generatedResults,
\* and genResults keeps the value it was made from.
Lead(id, path, description, source, status) ==
  [id |-> id, coll |-> "ideas", path |-> path, propertyDetails |-> description,
   source |-> source, status |-> status, generatedResults |-> JUndef, genResults |-> JUndef]

\* A document of a contacts collection.
Contact(id, path) ==
  [id |-> id, coll |-> "contacts", path |-> path, propertyDetails |-> "-", source |-> "-",
   status |-> "-", generatedResults |-> JUndef, genResults |-> JUndef]

\* The property description typed into the form or written by the model.
Described == "10 acres of wooded land"

\* The documents of one collection.
Collection(docs, coll, path) == {d \in docs : d.coll = coll /\ d.path = path}

\* A call of the store, with the userId of the handler that makes it.
Op(name, uid) == [op |-> name, userId |-> uid]

\* The subscriptions listening to one collection.
Listening(S, coll, path) == {sub \in S : sub.coll = coll /\ sub.uid = path}

RECURSIVE Notify(_, _, _)
\* A snapshot of `docs` is queued for each of the subscriptions S.
Notify(inbox, S, docs) ==
  IF S = {} THEN inbox
  ELSE LET sub == CHOOSE x \in S : TRUE IN
       Notify(Append(inbox, [run |-> sub.run, docs |-> docs]), S \ {sub}, docs)

\* The inboxes once the store holds `docs` after a write to collection coll of path.
IdeasInboxAfter(docs, coll, path) ==
  IF coll = "ideas"
  THEN Notify(ideasInbox, Listening(subs, "ideas", path), Collection(docs, "ideas", path))
  ELSE ideasInbox

ContactsInboxAfter(docs, coll, path) ==
  IF coll = "contacts"
  THEN Notify(contactsInbox, Listening(subs, "contacts", path), Collection(docs, "contacts", path))
  ELSE contactsInbox

\* Room for one more snapshot in the inboxes.
InboxRoom == Len(ideasInbox) < MaxPending /\ Len(contactsInbox) < MaxPending

\* A write to the store: the documents change, the call is logged and the
\* listeners of the collection are sent the new snapshot.
Write(docs, coll, path, op) ==
  /\ store' = docs
  /\ opLog' = opLog \cup {op}
  /\ ideasInbox' = IdeasInboxAfter(docs, coll, path)
  /\ contactsInbox' = ContactsInboxAfter(docs, coll, path)

\* addDoc(collection(db, `artifacts/${appId}/users/${uid}/...`), data)
AddDoc(doc, uid) ==
  /\ nextId <= MaxDocs
  /\ InboxRoom
  /\ Write(store \cup {doc}, doc.coll, doc.path, Op("addDoc", uid))
  /\ nextId' = nextId + 1

\* The document with the id in a collection, if there is one.
Stored(coll, uid, id) == {d \in store : d.coll = coll /\ d.path = uid /\ d.id = id}

\* A variant of DeleteAccepted for a store that rejects the deletion of a
\* document it does not hold.
DeleteAcceptedIfStored(coll, uid, id) == Stored(coll, uid, id) # {}

\* The promise of deleteDoc resolves whether or not the document exists.
DeleteAccepted(coll, uid, id) == TRUE

\* A variant of UpdateAccepted for a store whose updateDoc resolves whether or
\* not the document exists.
UpdateAcceptedAlways(uid, id) == TRUE

\* The promise of updateDoc is rejected (not-found) when the document does not
\* exist.
UpdateAccepted(uid, id) == Stored("ideas", uid, id) # {}

\* deleteDoc(doc(db, path, id)): deleting a document that does not exist succeeds.
DeleteDoc(coll, uid, id) ==
  /\ InboxRoom
  /\ LET gone == Stored(coll, uid, id) IN
       IF gone = {}
       THEN /\ opLog' = opLog \cup {Op("deleteDoc", uid)}
            /\ UNCHANGED <<store, ideasInbox, contactsInbox>>
       ELSE Write(store \ gone, coll, uid, Op("deleteDoc", uid))
  /\ UNCHANGED nextId

\* A variant of UpdateDoc that writes the document anew, as setDoc does: the
\* fields that are not in the update are lost.
UpdateDocReplacing(uid, id, newStatus) ==
  /\ InboxRoom
  /\ LET old == Stored("ideas", uid, id) IN
       IF old = {}
       THEN /\ opLog' = opLog \cup {Op("updateDoc", uid)}
            /\ UNCHANGED <<store, ideasInbox, contactsInbox>>
       ELSE Write((store \ old) \cup {Lead(id, uid, "-", "-", newStatus)},
                  "ideas", uid, Op("updateDoc", uid))
  /\ UNCHANGED nextId

\* updateDoc(doc(db, path, id), {status: newStatus}): it is rejected when the
\* document does not exist.
UpdateDoc(uid, id, newStatus) ==
  /\ InboxRoom
  /\ LET old == Stored("ideas", uid, id) IN
       IF old = {}
       THEN /\ opLog' = opLog \cup {Op("updateDoc", uid)}
            /\ UNCHANGED <<store, ideasInbox, contactsInbox>>
       ELSE Write((store \ old) \cup {[d EXCEPT !.status = newStatus] : d \in old},
                  "ideas", uid, Op("updateDoc", uid))
  /\ UNCHANGED nextId

(***************************************************************************)
(* The snapshot effect (lines 941-969) with its cleanup, run by React when *)
(* one of isAuthReady, dbInstance, userId has changed.                     *)
(***************************************************************************)
\* A variant of Unsubscribed that releases the leads subscription only.
UnsubscribedIdeasOnly(S) == {sub \in S : sub.coll # "ideas"}

\* The cleanup of lines 965-968: unsubscribeIdeas(); unsubscribeContacts().
Unsubscribed(S) == {}

\* The guard of line 943.
EffectGuard(ready, db, uid) == ready /\ db /\ uid # NullUser

Sub(coll, uid, run) == [coll |-> coll, uid |-> uid, run |-> run]

\* The snapshots still to deliver to the subscriptions S.
Pending(inbox, S) == SelectSeq(inbox, LAMBDA e : \E sub \in S : sub.run = e.run)

\* The commit of a render with the cells ready, db, uid: when a dependency has
\* changed, the previous run is cleaned up and the effect runs again.
SnapshotEffect(ready, db, uid) ==
  IF <<ready, db, uid>> = <<isAuthReady, dbInstance, userId>>
  THEN UNCHANGED <<subs, effRun, ideasInbox, contactsInbox>>
  ELSE LET kept == Unsubscribed(subs) IN
       IF EffectGuard(ready, db, uid)
       THEN /\ subs' = kept \cup {Sub("ideas", uid, effRun + 1), Sub("contacts", uid, effRun + 1)}
            /\ effRun' = effRun + 1
            /\ ideasInbox' = Append(Pending(ideasInbox, kept),
                                    [run |-> effRun + 1, docs |-> Collection(store, "ideas", uid)])
            /\ contactsInbox' = Append(Pending(contactsInbox, kept),
                                    [run |-> effRun + 1, docs |-> Collection(store, "contacts", uid)])
       ELSE /\ subs' = kept
            /\ effRun' = effRun
            /\ ideasInbox' = Pending(ideasInbox, kept)
            /\ contactsInbox' = Pending(contactsInbox, kept)

\* A variant of IdeasData that merges the snapshot into the list.
IdeasDataMerged(prev, docs) == prev \cup docs

\* setSavedIdeas(snapshot.docs.map(...)) of lines 948-952.
IdeasData(prev, docs) == docs

\* setSavedContacts(snapshot.docs.map(...)) of lines 958-962.
ContactsData(prev, docs) == docs

\* A variant of IdeasSnapshot that takes turns with the contacts subscription:
\* a leads snapshot is handed over only when no contacts snapshot is waiting.
IdeasSnapshotInTurn ==
  /\ mounted = "mounted"
  /\ ideasInbox # <<>>
  /\ contactsInbox = <<>>
  /\ \E sub \in subs : sub.coll = "ideas" /\ sub.run = Head(ideasInbox).run
  /\ savedIdeas' = IdeasData(savedIdeas, Head(ideasInbox).docs)
  /\ ideasInbox' = Tail(ideasInbox)
  /\ UNCHANGED <<apiVars, uiVars, authVars, storeVars, handlerVars, userId, isAuthReady,
                 dbInstance, savedContacts, subs, effRun, contactsInbox>>

\* The leads subscription's callback is handed the next snapshot.
IdeasSnapshot ==
  /\ mounted = "mounted"
  /\ ideasInbox # <<>>
  /\ \E sub \in subs : sub.coll = "ideas" /\ sub.run = Head(ideasInbox).run
  /\ savedIdeas' = IdeasData(savedIdeas, Head(ideasInbox).docs)
  /\ ideasInbox' = Tail(ideasInbox)
  /\ UNCHANGED <<apiVars, uiVars, authVars, storeVars, handlerVars, userId, isAuthReady, dbInstance,
                 savedContacts, subs, effRun, contactsInbox>>

\* The contacts subscription's callback is handed the next snapshot.
ContactsSnapshot ==
  /\ mounted = "mounted"
  /\ contactsInbox # <<>>
  /\ \E sub \in subs : sub.coll = "contacts" /\ sub.run = Head(contactsInbox).run
  /\ savedContacts' = ContactsData(savedContacts, Head(contactsInbox).docs)
  /\ contactsInbox' = Tail(contactsInbox)
  /\ UNCHANGED <<apiVars, uiVars, authVars, storeVars, handlerVars, userId, isAuthReady, dbInstance,
                 savedIdeas, subs, effRun, ideasInbox>>

(***************************************************************************)
(* The auth effect (lines 909-938) and the listener callback.              *)
(***************************************************************************)
\* The effect of lines 909-938 at mount: the handles are stored and the listener
\* is registered; the auth instance reports its current user to it.
MountEffect ==
  /\ mounted = "new"
  /\ mounted' = "mounted"
  /\ IF app
     THEN /\ dbInstance' = TRUE
          /\ authQueue' = <<authUser>>
          /\ SnapshotEffect(isAuthReady, TRUE, userId)
     ELSE UNCHANGED <<dbInstance, authQueue, subs, effRun, ideasInbox, contactsInbox>>
  /\ UNCHANGED <<apiVars, uiVars, app, initialAuthToken, authUser, signIn, sessionEnds, endedSession,
                 userId, isAuthReady, savedIdeas, savedContacts, storeVars, handlerVars>>

\* The listener callback (lines 918-935) is called with a user:
\* setUserId(user.uid); setIsAuthReady(true).
AuthReportsUser ==
  /\ mounted = "mounted"
  /\ authQueue # <<>> /\ Head(authQueue) # NullUser
  /\ authQueue' = Tail(authQueue)
  /\ userId' = Head(authQueue)
  /\ isAuthReady' = TRUE
  /\ endedSession' = NullUser
  /\ SnapshotEffect(TRUE, dbInstance, Head(authQueue))
  /\ UNCHANGED <<apiVars, uiVars, app, initialAuthToken, mounted, authUser, signIn, sessionEnds,
                 dbInstance, savedIdeas, savedContacts, storeVars, handlerVars>>

\* A variant of AuthReportsNoUser that signs in anonymously whether or not a
\* token is provided.
AuthReportsNoUserAnonymously ==
  /\ mounted = "mounted"
  /\ authQueue # <<>> /\ Head(authQueue) = NullUser
  /\ signIn = "none"
  /\ authQueue' = Tail(authQueue)
  /\ signIn' = "anon"
  /\ endedSession' = userId
  /\ UNCHANGED <<apiVars, uiVars, app, initialAuthToken, mounted, authUser, sessionEnds,
                 viewVars, storeVars, handlerVars>>

\* The listener callback is called with no user: it starts a sign-in and is
\* suspended at the await of line 925 or 931.
AuthReportsNoUser ==
  /\ mounted = "mounted"
  /\ authQueue # <<>> /\ Head(authQueue) = NullUser
  /\ signIn = "none"
  /\ authQueue' = Tail(authQueue)
  /\ signIn' = IF initialAuthToken THEN "token" ELSE "anon"
  /\ endedSession' = userId
  /\ UNCHANGED <<apiVars, uiVars, app, initialAuthToken, mounted, authUser, sessionEnds,
                 viewVars, storeVars, handlerVars>>

\* signInWithCustomToken or signInAnonymously succeeds: the auth instance has a
\* user, whom it will report to the listener.
SignInSucceeds ==
  /\ signIn \in {"token", "anon"}
  /\ \E uid \in Uids :
       /\ authUser' = uid
       /\ authQueue' = IF mounted = "mounted" THEN Append(authQueue, uid) ELSE authQueue
  /\ signIn' = "resume"
  /\ UNCHANGED <<apiVars, uiVars, app, initialAuthToken, mounted, sessionEnds, endedSession,
                 viewVars, storeVars, handlerVars>>

\* signInWithCustomToken fails: the catch of lines 926-929 signs in anonymously.
TokenSignInFails ==
  /\ signIn = "token"
  /\ signIn' = "anon"
  /\ UNCHANGED <<apiVars, uiVars, app, initialAuthToken, mounted, authUser, authQueue, sessionEnds,
                 endedSession, viewVars, storeVars, handlerVars>>

\* signInAnonymously fails: the callback ends in a rejection before line 934.
AnonymousSignInFails ==
  /\ signIn = "anon"
  /\ signIn' = "none"
  /\ UNCHANGED <<apiVars, uiVars, app, initialAuthToken, mounted, authUser, authQueue, sessionEnds,
                 endedSession, viewVars, storeVars, handlerVars>>

\* The suspended callback goes on after its sign-in: setIsAuthReady(true).
CallbackResumes ==
  /\ signIn = "resume"
  /\ signIn' = "none"
  /\ IF mounted = "mounted"
     THEN isAuthReady' = TRUE /\ SnapshotEffect(TRUE, dbInstance, userId)
     ELSE UNCHANGED <<isAuthReady, subs, effRun, ideasInbox, contactsInbox>>
  /\ UNCHANGED <<apiVars, uiVars, app, initialAuthToken, mounted, authUser, authQueue, sessionEnds,
                 endedSession, userId, dbInstance, savedIdeas, savedContacts, storeVars,
                 handlerVars>>

\* The session of the signed-in user ends (sign-out elsewhere, a revoked or
\* deleted account): the auth instance has no user and reports so.
SessionEnds ==
  /\ authUser # NullUser
  /\ sessionEnds < MaxSessionEnds
  /\ sessionEnds' = sessionEnds + 1
  /\ authUser' = NullUser
  /\ authQueue' = IF mounted = "mounted" THEN Append(authQueue, NullUser) ELSE authQueue
  /\ UNCHANGED <<apiVars, uiVars, app, initialAuthToken, mounted, signIn, endedSession,
                 viewVars, storeVars, handlerVars>>

\* The App unmounts: the cleanups of both effects run (lines 937 and 965-968).
Unmount ==
  /\ mounted = "mounted"
  /\ mounted' = "unmounted"
  /\ authQueue' = <<>>
  /\ subs' = Unsubscribed(subs)
  /\ ideasInbox' = Pending(ideasInbox, subs')
  /\ contactsInbox' = Pending(contactsInbox, subs')
  /\ UNCHANGED <<apiVars, uiVars, app, initialAuthToken, authUser, signIn, sessionEnds, endedSession,
                 userId, isAuthReady, dbInstance, savedIdeas, savedContacts, effRun,
                 storeVars, handlerVars>>

(***************************************************************************)
(* The handlers that write to the store.                                   *)
(***************************************************************************)
\* What a handler leaves alone.
handlerFrame ==
  <<apiVars, uiVars, authVars, userId, isAuthReady, dbInstance, savedIdeas, savedContacts, subs,
    effRun>>

NoWrite == UNCHANGED <<storeVars, ideasInbox, contactsInbox>>

\* if (!dbInstance || !userId) of lines 1028, 1051, 1067, 1150, 1211, 1230:
\* the handler throws and its catch block reports the failure.
Unavailable(db, uid) == ~db \/ uid = NullUser

\* saveIdea (lines 1026-1046)
SaveIdea ==
  /\ mounted = "mounted"
  /\ IF Unavailable(dbInstance, userId)
     THEN NoWrite
     ELSE AddDoc(Lead(nextId, userId, Described, "-", "New"), userId)
  /\ UNCHANGED <<handlerFrame, handlerVars>>

\* deleteIdea(ideaToDelete?.id) (lines 1049-1062), on a lead of the list
DeleteIdea ==
  /\ mounted = "mounted"
  /\ \E idea \in savedIdeas :
       IF Unavailable(dbInstance, userId)
       THEN NoWrite
       ELSE DeleteDoc("ideas", userId, idea.id)
  /\ UNCHANGED <<handlerFrame, handlerVars>>

\* The status picked in the select of a lead: one of statusColors' keys.
StatusInputs == {"Sold"}

\* updateLeadStatus(idea.id, e.target.value) (lines 1065-1079), on a lead of the list
UpdateLeadStatus ==
  /\ mounted = "mounted"
  /\ \E idea \in savedIdeas, newStatus \in StatusInputs :
       IF Unavailable(dbInstance, userId)
       THEN NoWrite
       ELSE UpdateDoc(userId, idea.id, newStatus)
  /\ UNCHANGED <<handlerFrame, handlerVars>>

\* saveContact (lines 1209-1225)
SaveContact ==
  /\ mounted = "mounted"
  /\ IF Unavailable(dbInstance, userId)
     THEN NoWrite
     ELSE AddDoc(Contact(nextId, userId), userId)
  /\ UNCHANGED <<handlerFrame, handlerVars>>

\* deleteContact(contactToDelete?.id) (lines 1228-1241), on a contact of the list
DeleteContact ==
  /\ mounted = "mounted"
  /\ \E contact \in savedContacts :
       IF Unavailable(dbInstance, userId)
       THEN NoWrite
       ELSE DeleteDoc("contacts", userId, contact.id)
  /\ UNCHANGED <<handlerFrame, handlerVars>>

\* The mock county leads of lines 1153-1176.
CountyLeads == 2

mockCountyLeads == <<"419 S Main St, Elkton, MD", "Vacant lot near Big Elk Creek, Elkton, MD">>

\* A variant of CountyLead whose mock leads carry no status.
CountyLeadNoStatus(k, uid) == Lead(nextId, uid, mockCountyLeads[k], "county", "-")

\* The k-th mock lead as addDoc stores it for the user uid.
CountyLead(k, uid) == Lead(nextId, uid, mockCountyLeads[k], "county", "New")

\* importCountyProperties (lines 1148-1187) up to its first await: the guard and
\* the first addDoc.
ImportCountyProperties ==
  /\ mounted = "mounted"
  /\ imp.pc = "idle"
  /\ IF Unavailable(dbInstance, userId)
     THEN NoWrite /\ UNCHANGED imp
     ELSE /\ AddDoc(CountyLead(1, userId), userId)
          /\ imp' = [pc |-> "loop", userId |-> userId, left |-> CountyLeads - 1]
  /\ UNCHANGED <<handlerFrame, auto, isAutoGenerating>>

\* The loop of lines 1179-1181 goes on after an await, with the userId of the
\* render that started it.
ImportNext ==
  /\ imp.pc = "loop"
  /\ AddDoc(CountyLead(CountyLeads - imp.left + 1, imp.userId), imp.userId)
  /\ imp' = IF imp.left = 1 THEN IdleImport ELSE [imp EXCEPT !.left = @ - 1]
  /\ UNCHANGED <<handlerFrame, auto, isAutoGenerating>>

\* runAutomatedLeadSearch (lines 1106-1145) up to the await of callGeminiApi, on
\* a click of the Auto-Generate button (disabled={isAutoGenerating}, line 339).
RunAutomatedLeadSearch ==
  /\ mounted = "mounted"
  /\ ~isAutoGenerating
  /\ isAutoGenerating' = TRUE
  /\ auto' = [pc |-> "api", userId |-> userId, db |-> dbInstance, left |-> 0]
  /\ NoWrite
  /\ UNCHANGED <<handlerFrame, imp>>

\* callGeminiApi throws, or its text is not the JSON of an array (lines
\* 1121-1122 and 1138-1144).
AutoApiFails ==
  /\ auto.pc = "api"
  /\ auto' = IdleAuto
  /\ isAutoGenerating' = FALSE
  /\ NoWrite
  /\ UNCHANGED <<handlerFrame, imp>>

\* callGeminiApi returns the JSON of an array of n leads (lines 1121-1125);
\* collection(dbInstance, ...) throws without a store handle.
AutoApiReturns ==
  /\ auto.pc = "api"
  /\ \E n \in 0..MaxAutoLeads :
       auto' = IF ~auto.db \/ n = 0 THEN IdleAuto ELSE [auto EXCEPT !.pc = "write", !.left = n]
  /\ isAutoGenerating' = (auto'.pc # "idle")
  /\ NoWrite
  /\ UNCHANGED <<handlerFrame, imp>>

\* One turn of the loop of lines 1126-1136, with the userId of the render that
\* started the search.
AutoWrite ==
  /\ auto.pc = "write"
  /\ AddDoc(Lead(nextId, auto.userId, Described, "-", "New"), auto.userId)
  /\ auto' = IF auto.left = 1 THEN IdleAuto ELSE [auto EXCEPT !.left = @ - 1]
  /\ isAutoGenerating' = (auto.left # 1)
  /\ UNCHANGED <<handlerFrame, imp>>

(***************************************************************************)
(* The App with its auth listener, its subscriptions and its handlers.     *)
(***************************************************************************)
InitSync ==
  /\ ApiAtRest
  /\ ViewAtRest
  /\ UiAtRest
  /\ app \in BOOLEAN
  /\ initialAuthToken \in BOOLEAN
  /\ authUser \in {NullUser, "u1"}

NextSync ==
  \/ MountEffect \/ AuthReportsUser \/ AuthReportsNoUser \/ SignInSucceeds
  \/ TokenSignInFails \/ AnonymousSignInFails \/ CallbackResumes \/ SessionEnds \/ Unmount
  \/ IdeasSnapshot \/ ContactsSnapshot
  \/ SaveIdea \/ DeleteIdea \/ UpdateLeadStatus \/ SaveContact \/ DeleteContact
  \/ ImportCountyProperties \/ ImportNext
  \/ RunAutomatedLeadSearch \/ AutoApiFails \/ AutoApiReturns \/ AutoWrite

SpecSync == InitSync /\ [][NextSync]_vars

(***************************************************************************)
(* Properties of the auth listener, the subscriptions and the handlers.    *)
(***************************************************************************)
\* C6: no store operation (addDoc, updateDoc, deleteDoc) is issued by a handler
\* whose userId is unresolved: invoked before sign-in has resolved, each handler
\* fails without touching the store.
C6_NoStoreOpUnresolved == \A o \in opLog : o.userId # NullUser

\* C7: every lead of savedIdeas and every contact of savedContacts was read from
\* the collection of the current userId, also after userId has changed.
C7_OwnDocumentsOnly == \A d \in savedIdeas \cup savedContacts : d.path = userId

Subscribed(coll) == \E sub \in subs : sub.coll = coll

\* C8: while the subscriptions are live and no snapshot awaits delivery,
\* savedIdeas is the current user's ideas collection and savedContacts the
\* contacts collection: a delivery replaces the list by the snapshot's documents.
C8_ViewFollowsStore ==
  /\ (Subscribed("ideas") /\ ideasInbox = <<>>) =>
        savedIdeas = Collection(store, "ideas", userId)
  /\ (Subscribed("contacts") /\ contactsInbox = <<>>) =>
        savedContacts = Collection(store, "contacts", userId)

C8_Witness ==
  /\ Subscribed("ideas") /\ ideasInbox = <<>>
  /\ Subscribed("contacts") /\ contactsInbox = <<>>
  /\ \E d \in savedIdeas : d.status = "Sold"
  /\ savedContacts # {}
  /\ nextId > MaxDocs

C8_WitnessDeleted ==
  /\ Subscribed("ideas") /\ ideasInbox = <<>>
  /\ savedIdeas = {} /\ nextId > 1 /\ store = {}
  /\ [op |-> "deleteDoc", userId |-> userId] \in opLog

\* C9: at most one leads and one contacts subscription are live, they are those
\* of the effect's last run for the current userId, store handle and auth
\* readiness, none outlives the App, and every snapshot awaiting delivery is for
\* a live subscription.
C9_SubscriptionsReleased ==
  /\ Cardinality({sub \in subs : sub.coll = "ideas"}) <= 1
  /\ Cardinality({sub \in subs : sub.coll = "contacts"}) <= 1
  /\ \A sub \in subs : sub.uid = userId /\ sub.run = effRun /\ isAuthReady /\ dbInstance
  /\ mounted = "unmounted" => subs = {}
  /\ \A k \in 1..Len(ideasInbox) :
        \E sub \in subs : sub.coll = "ideas" /\ sub.run = ideasInbox[k].run
  /\ \A k \in 1..Len(contactsInbox) :
        \E sub \in subs : sub.coll = "contacts" /\ sub.run = contactsInbox[k].run

C9_Witness ==
  /\ effRun = 2
  /\ userId = "u2"
  /\ subs = {Sub("ideas", "u2", 2), Sub("contacts", "u2", 2)}

C9_WitnessUnmounted == mounted = "unmounted" /\ effRun = 2 /\ subs = {}

\* C10: once the listener has reported that the session of a user has ended, no
\* subscription on that user's collections is live.
C10_SessionEndTearsDown ==
  endedSession # NullUser => \A sub \in subs : sub.uid # endedSession

(***************************************************************************)
(* Properties of the two subscriptions taken together.                     *)
(***************************************************************************)
\* A snapshot of the collection is waiting for a live subscription.
Deliverable(inbox, coll) ==
  /\ mounted = "mounted"
  /\ inbox # <<>>
  /\ \E sub \in subs : sub.coll = coll /\ sub.run = Head(inbox).run

\* C20: the delivery of a leads snapshot changes savedIdeas and leaves
\* savedContacts and the waiting contacts snapshots alone, the delivery of a
\* contacts snapshot does the same the other way round, and a waiting snapshot
\* of either kind can be delivered whatever is waiting for the other.
C20_IndependentDeliveries ==
  /\ [][/\ IdeasSnapshot => UNCHANGED <<savedContacts, contactsInbox>>
        /\ ContactsSnapshot => UNCHANGED <<savedIdeas, ideasInbox>>]_vars
  /\ [](Deliverable(ideasInbox, "ideas") => ENABLED IdeasSnapshot)
  /\ [](Deliverable(contactsInbox, "contacts") => ENABLED ContactsSnapshot)

\* The leads have been delivered while a contacts snapshot taken before the
\* contact was saved is still waiting.
C20_Witness ==
  /\ savedIdeas # {}
  /\ ideasInbox = <<>>
  /\ Len(contactsInbox) = 2
  /\ savedContacts = {}
  /\ Collection(store, "contacts", userId) # {}

(***************************************************************************)
(* Properties of the stored documents.                                     *)
(***************************************************************************)
\* The document of `docs` that has the id of d and is in its collection.
Same(docs, d) == {e \in docs : e.id = d.id /\ e.coll = d.coll /\ e.path = d.path}

\* The documents of the store that a step has changed.
Changed == {d \in store : Same(store', d) # {} /\ d \notin store'}

\* C18: no step changes a field of a stored lead other than status, no step
\* changes a stored contact, and a step that changes the status of a lead
\* changes that one document and neither adds nor removes another.
C18_OnlyStatusChanges ==
  [][/\ \A d \in store : \A e \in Same(store', d) :
          /\ e.propertyDetails = d.propertyDetails
          /\ e.source = d.source
          /\ d.coll = "contacts" => e = d
     /\ Changed # {} =>
          /\ Cardinality(Changed) = 1
          /\ \A d \in store : Same(store', d) # {}
          /\ \A e \in store' : Same(store, e) # {}]_vars

\* A county lead has had its status changed beside a lead and nothing else of
\* it has.
C18_Witness ==
  /\ \E d \in store : d.source = "county" /\ d.status = "Sold" /\ d.propertyDetails = mockCountyLeads[1]
  /\ \E d \in store : d.source = "county" /\ d.status = "New" /\ d.propertyDetails = mockCountyLeads[2]

\* The leads of the store.
StoredLeads == {d \in store : d.coll = "ideas"}

\* C19: every lead enters the store with status New, whichever of saveIdea,
\* runAutomatedLeadSearch and importCountyProperties creates it, and the status
\* of every stored lead is one of New, Contacted, Offer Made, Under Contract,
\* Sold.
C19_StatusOfLeads ==
  /\ [](\A d \in StoredLeads : d.status \in Statuses)
  /\ [][\A e \in store' : (e.coll = "ideas" /\ Same(store, e) = {}) => e.status = "New"]_vars

\* A county lead and a described lead are stored, one of them moved on from New.
C19_Witness ==
  /\ \E d \in StoredLeads : d.source = "county" /\ d.status = "New"
  /\ \E d \in StoredLeads : d.source = "-" /\ d.status = "Sold"

(***************************************************************************)
(* The handlers that write to the store, from the click that starts them   *)
(* to the notification that ends them.  A handler is suspended at          *)
(* `await addDoc(...)`, `await updateDoc(...)` or `await deleteDoc(...)`   *)
(* until the store settles the call; the write itself is issued at once.   *)
(***************************************************************************)
MaxOutstanding == 2

\* showToast(message, isError) (lines 41-50)
showToast(message, isError) == [message |-> message, isError |-> isError]

\* The messages of the handlers' try and catch blocks.
SuccessMessage(op, arg) ==
  CASE op = "saveIdea" -> "Lead saved successfully!"
    [] op = "deleteIdea" -> "Lead deleted successfully!"
    [] op = "updateLeadStatus" -> "Lead status updated to \"" \o arg \o "\"!"
    [] op = "importCountyProperties" -> "Successfully imported tax delinquent properties!"
    [] op = "saveContact" -> "Contact saved successfully!"
    [] op = "deleteContact" -> "Contact deleted successfully!"

FailureMessage(op) ==
  CASE op = "saveIdea" -> "Failed to save lead."
    [] op = "deleteIdea" -> "Failed to delete lead."
    [] op = "updateLeadStatus" -> "Failed to update status."
    [] op = "importCountyProperties" -> "Failed to import county properties."
    [] op = "saveContact" -> "Failed to save contact."
    [] op = "deleteContact" -> "Failed to delete contact."

\* The handler op ends in its catch block.
Fails(op) ==
  /\ toast' = showToast(FailureMessage(op), TRUE)
  /\ lastOp' = Outcome(op, TRUE, "store")

\* The handler op ends after the last statement of its try block.
Succeeds(op, arg) ==
  /\ toast' = showToast(SuccessMessage(op, arg), FALSE)
  /\ lastOp' = Outcome(op, FALSE, "")

\* An invocation suspended at an await of the store: the handler, the userId
\* of its closure, its arguments (0 and "" for none), the documents it has
\* still to write after the pending call, and whether the store accepts the
\* pending call.
Suspended(op, uid, id, arg, left, ok) ==
  [op |-> op, userId |-> uid, id |-> id, arg |-> arg, left |-> left, ok |-> ok]

Awaits(e) ==
  /\ Len(outstanding) < MaxOutstanding
  /\ outstanding' = Append(outstanding, e)

Without(seq, k) == SubSeq(seq, 1, k - 1) \o SubSeq(seq, k + 1, Len(seq))

\* A write the store rejects (security rules, the network): nothing is stored.
RejectedWrite(name, uid) ==
  /\ opLog' = opLog \cup {Op(name, uid)}
  /\ UNCHANGED <<store, nextId, ideasInbox, contactsInbox>>

\* What a click on a control of the deal flow or contacts tab leaves alone.
clickFrame ==
  <<apiVars, authVars, handlerVars, aiVars, calcVars, formVars, parseVars, userId, isAuthReady, dbInstance, savedIdeas,
    savedContacts, subs, effRun>>

\* A click on Import County Properties (lines 330-336; the button has no
\* disabled attribute): importCountyProperties up to its first await.
ImportClicked ==
  /\ mounted = "mounted"
  /\ IF Unavailable(dbInstance, userId)
     THEN NoWrite /\ Fails("importCountyProperties") /\ UNCHANGED outstanding
     ELSE /\ \E ok \in BOOLEAN :
               /\ IF ok THEN AddDoc(CountyLead(1, userId), userId)
                        ELSE RejectedWrite("addDoc", userId)
               /\ Awaits(Suspended("importCountyProperties", userId, 0, "", CountyLeads - 1, ok))
          /\ UNCHANGED noteVars
  /\ UNCHANGED <<clickFrame, modalVars>>

\* A click on Save Contact (lines 654-660): handleSaveContact calls saveContact,
\* which runs up to its await.
SaveContactClicked ==
  /\ mounted = "mounted"
  /\ IF Unavailable(dbInstance, userId)
     THEN NoWrite /\ Fails("saveContact") /\ UNCHANGED outstanding
     ELSE /\ \E ok \in BOOLEAN :
               /\ IF ok THEN AddDoc(Contact(nextId, userId), userId)
                        ELSE RejectedWrite("addDoc", userId)
               /\ Awaits(Suspended("saveContact", userId, 0, "", 0, ok))
          /\ UNCHANGED noteVars
  /\ UNCHANGED <<clickFrame, modalVars>>

\* A status is picked in the select of a listed lead (lines 391-399):
\* updateLeadStatus(idea.id, e.target.value) up to its await.
StatusPicked ==
  /\ mounted = "mounted"
  /\ \E idea \in savedIdeas, newStatus \in StatusInputs :
       IF Unavailable(dbInstance, userId)
       THEN NoWrite /\ Fails("updateLeadStatus") /\ UNCHANGED outstanding
       ELSE /\ UpdateDoc(userId, idea.id, newStatus)
            /\ Awaits(Suspended("updateLeadStatus", userId, idea.id, newStatus, 0,
                                UpdateAccepted(userId, idea.id)))
            /\ UNCHANGED noteVars
  /\ UNCHANGED <<clickFrame, modalVars>>

\* A click on the trash button of a listed lead (line 406), which the open
\* modal covers: toggleIdeaDeleteModal(idea) (lines 1203-1206).
TrashLeadClicked ==
  /\ mounted = "mounted"
  /\ ~showIdeaDeleteModal
  /\ \E idea \in savedIdeas : ideaToDelete' = idea.id
  /\ showIdeaDeleteModal' = ~showIdeaDeleteModal
  /\ NoWrite
  /\ UNCHANGED <<clickFrame, outstanding, noteVars, showContactDeleteModal, contactToDelete>>

\* A click on Cancel in the modal (line 460): toggleIdeaDeleteModal(null).
LeadDeleteCancelled ==
  /\ mounted = "mounted"
  /\ showIdeaDeleteModal
  /\ ideaToDelete' = 0
  /\ showIdeaDeleteModal' = ~showIdeaDeleteModal
  /\ NoWrite
  /\ UNCHANGED <<clickFrame, outstanding, noteVars, showContactDeleteModal, contactToDelete>>

\* A click on Delete in the modal (line 459): deleteIdea(ideaToDelete?.id) up to
\* its await.  The modal stays open until the call has settled (line 1057).
LeadDeleteConfirmed ==
  /\ mounted = "mounted"
  /\ showIdeaDeleteModal
  /\ IF Unavailable(dbInstance, userId)
     THEN NoWrite /\ Fails("deleteIdea") /\ UNCHANGED outstanding
     ELSE /\ DeleteDoc("ideas", userId, ideaToDelete)
          /\ Awaits(Suspended("deleteIdea", userId, ideaToDelete, "", 0,
                                DeleteAccepted("ideas", userId, ideaToDelete)))
          /\ UNCHANGED noteVars
  /\ UNCHANGED <<clickFrame, modalVars>>

\* A click on the trash button of a listed contact (line 698):
\* toggleContactDeleteModal(contact) (lines 1244-1247).
TrashContactClicked ==
  /\ mounted = "mounted"
  /\ ~showContactDeleteModal
  /\ \E contact \in savedContacts : contactToDelete' = contact.id
  /\ showContactDeleteModal' = ~showContactDeleteModal
  /\ NoWrite
  /\ UNCHANGED <<clickFrame, outstanding, noteVars, showIdeaDeleteModal, ideaToDelete>>

\* A click on Cancel in the modal (line 717): toggleContactDeleteModal(null).
ContactDeleteCancelled ==
  /\ mounted = "mounted"
  /\ showContactDeleteModal
  /\ contactToDelete' = 0
  /\ showContactDeleteModal' = ~showContactDeleteModal
  /\ NoWrite
  /\ UNCHANGED <<clickFrame, outstanding, noteVars, showIdeaDeleteModal, ideaToDelete>>

\* A click on Delete in the modal (line 716): deleteContact(contactToDelete?.id)
\* up to its await.
ContactDeleteConfirmed ==
  /\ mounted = "mounted"
  /\ showContactDeleteModal
  /\ IF Unavailable(dbInstance, userId)
     THEN NoWrite /\ Fails("deleteContact") /\ UNCHANGED outstanding
     ELSE /\ DeleteDoc("contacts", userId, contactToDelete)
          /\ Awaits(Suspended("deleteContact", userId, contactToDelete, "", 0,
                                DeleteAccepted("contacts", userId, contactToDelete)))
          /\ UNCHANGED noteVars
  /\ UNCHANGED <<clickFrame, modalVars>>

\* The store settles the call a handler awaits and the handler runs to its
\* end: the rest of its try block, or its catch block.
WriteSettles ==
  /\ \E k \in 1..Len(outstanding) :
       LET e == outstanding[k] IN
         /\ e.op # "runAutomatedLeadSearch"
         /\ ~e.ok \/ e.left = 0
         /\ outstanding' = Without(outstanding, k)
         /\ IF e.ok THEN Succeeds(e.op, e.arg) ELSE Fails(e.op)
         /\ showIdeaDeleteModal' = IF e.op = "deleteIdea" /\ e.ok /\ mounted = "mounted"
                                   THEN FALSE ELSE showIdeaDeleteModal
         /\ showContactDeleteModal' = IF e.op = "deleteContact" /\ e.ok /\ mounted = "mounted"
                                      THEN FALSE ELSE showContactDeleteModal
  /\ NoWrite
  /\ UNCHANGED <<clickFrame, ideaToDelete, contactToDelete>>

\* The store has accepted a lead of importCountyProperties and the loop of
\* lines 1179-1181 goes on to the next, with the userId of its closure.
ImportGoesOn ==
  /\ \E k \in 1..Len(outstanding) :
       LET e == outstanding[k] IN
         /\ e.ok /\ e.left > 0
         /\ \E ok \in BOOLEAN :
              /\ IF ok THEN AddDoc(CountyLead(CountyLeads - e.left + 1, e.userId), e.userId)
                       ELSE RejectedWrite("addDoc", e.userId)
              /\ outstanding' = [outstanding EXCEPT ![k] = [e EXCEPT !.left = @ - 1, !.ok = ok]]
  /\ UNCHANGED <<clickFrame, modalVars, noteVars>>

\* A returning user opens the App.
InitStore ==
  /\ ApiAtRest
  /\ ViewAtRest
  /\ UiAtRest
  /\ app = TRUE
  /\ initialAuthToken = FALSE
  /\ authUser = "u1"

NextStore ==
  \/ MountEffect \/ AuthReportsUser \/ IdeasSnapshot \/ ContactsSnapshot
  \/ ImportClicked \/ ImportGoesOn \/ SaveContactClicked \/ StatusPicked
  \/ TrashLeadClicked \/ LeadDeleteCancelled \/ LeadDeleteConfirmed
  \/ TrashContactClicked \/ ContactDeleteCancelled \/ ContactDeleteConfirmed
  \/ WriteSettles

SpecStore == InitStore /\ [][NextStore]_vars

(***************************************************************************)
(* Properties of the handlers that write to the store.                     *)
(***************************************************************************)
\* The suspended invocations of a handler.
Invocations(op) == {k \in 1..Len(outstanding) : outstanding[k].op = op}

WriteHandlers ==
  {"saveIdea", "importCountyProperties", "saveContact", "deleteIdea", "deleteContact",
   "updateLeadStatus"}

\* C12: no handler that writes to the store has two invocations outstanding at
\* once, and no collection holds two leads with the same property description.
C12_NoReentrantWrites ==
  /\ \A op \in WriteHandlers : Cardinality(Invocations(op)) <= 1
  /\ \A d, e \in StoredLeads :
       (d.path = e.path /\ d.propertyDetails = e.propertyDetails) => d = e

\* A step in which a handler has issued a call of the store and is suspended.
Issued(e) == outstanding' = Append(outstanding, e)

\* A step in which the call the invocation e awaited has settled and its
\* handler has ended.
Ended(e) == \E k \in 1..Len(outstanding) : outstanding[k] = e /\ outstanding' = Without(outstanding, k)

Entries == {outstanding[k] : k \in 1..Len(outstanding)} \cup {outstanding'[k] : k \in 1..Len(outstanding')}

\* C16: updateLeadStatus on an id that is not in the user's ideas collection
\* leaves the store as it is and ends with the failure notification.
C16_UpdateOfMissingLeadFails ==
  [][\A e \in Entries :
       e.op = "updateLeadStatus" =>
          /\ (Issued(e) /\ Stored("ideas", e.userId, e.id) = {}) =>
                store' = store /\ ~e.ok
          /\ (Ended(e) /\ ~e.ok) =>
                /\ toast' = showToast("Failed to update status.", TRUE)
                /\ lastOp' = Outcome("updateLeadStatus", TRUE, "store")]_vars

\* An update of a lead that was deleted while still listed has ended.
C16_Witness ==
  /\ lastOp = Outcome("updateLeadStatus", TRUE, "store")
  /\ toast.isError
  /\ [op |-> "deleteDoc", userId |-> userId] \in opLog
  /\ dbInstance /\ userId # NullUser

\* C17: deleteIdea and deleteContact on an id that is no longer stored do not
\* fail and remove nothing; a delete removes the addressed document alone, and
\* once it is issued neither the store, nor the last snapshot sent, nor the
\* list when it is up to date holds that id.
C17_DeleteIsIdempotent ==
  /\ [][\A e \in Entries : e.op \in {"deleteIdea", "deleteContact"} =>
          LET coll == IF e.op = "deleteIdea" THEN "ideas" ELSE "contacts" IN
            /\ Issued(e) => store' = store \ Stored(coll, e.userId, e.id)
            /\ Ended(e) => /\ toast' = showToast(SuccessMessage(e.op, ""), FALSE)
                           /\ lastOp' = Outcome(e.op, FALSE, "")]_vars
  /\ [](\A k \in 1..Len(outstanding) :
          LET e == outstanding[k] IN
            e.op = "deleteIdea" =>
              /\ Stored("ideas", e.userId, e.id) = {}
              /\ ideasInbox # <<>> =>
                   \A d \in ideasInbox[Len(ideasInbox)].docs : d.id # e.id
              /\ (Subscribed("ideas") /\ ideasInbox = <<>>) =>
                   \A d \in savedIdeas : d.id # e.id)

\* Delete was clicked twice in the modal of one lead: the second deleteIdea met
\* an id that the first had removed.
C17_Witness ==
  /\ Len(outstanding) = 2
  /\ outstanding[1].op = "deleteIdea" /\ outstanding[2].op = "deleteIdea"
  /\ outstanding[1].id = outstanding[2].id
  /\ nextId > 1

(***************************************************************************)
(* The texts the model answers a lead analysis with, and how findLeads     *)
(* reads them: responseText.replace(/```json|```/g, '').trim(), then       *)
(* JSON.parse (line 1015).  A text is kept with its lexical structure: a   *)
(* sequence of tokens, each a code fence, white space, the serialization   *)
(* of a value, or prose.                                                   *)
(***************************************************************************)
Token(kind, text, value) == [kind |-> kind, text |-> text, value |-> value]

\* The code fences of the pattern; the fence character is written ' here.
FenceJson == Token("fence", "'''json", JUndef)

Fence == Token("fence", "'''", JUndef)

Newline == Token("space", "\n", JUndef)

RECURSIVE Spelling(_)
\* The characters of a sequence of tokens.
Spelling(tokens) == IF tokens = <<>> THEN "" ELSE Head(tokens).text \o Spelling(Tail(tokens))

\* A string with the given tokens.
JText(tokens) == [jt |-> "string", s |-> Spelling(tokens), v |-> tokens]

\* The tokens of a string: one that was not built from tokens is prose.
Lex(x) == IF x.v = <<>> /\ x.s # "" THEN <<Token("prose", x.s, JUndef)>> ELSE x.v

\* The analysis the prompt of lines 984-989 asks for, with its five keys.
FullAnalysis ==
  JObj(<< <<"detailedPropertySummary", JStr("Wooded parcel near the creek")>>,
          <<"suggestedOfferRange", JStr("$150,000 - $180,000")>>,
          <<"buyerProfiles", JArr(<<JStr("Developer")>>)>>,
          <<"sellerOutreachAngles", JArr(<<JStr("Quick close")>>)>>,
          <<"dueDiligenceChecklist", JArr(<<JStr("Title search")>>)>> >>)

\* An analysis without the key suggestedOfferRange.
AnalysisNoOfferRange ==
  JObj(<< <<"detailedPropertySummary", JStr("Wooded parcel near the creek")>>,
          <<"buyerProfiles", JArr(<<JStr("Developer")>>)>>,
          <<"sellerOutreachAngles", JArr(<<JStr("Quick close")>>)>>,
          <<"dueDiligenceChecklist", JArr(<<JStr("Title search")>>)>> >>)

\* JSON.stringify(value), as one token.
Json(text, value) == Token("json", text, value)

\* The texts of a reply: the analysis bare and in a code fence, an analysis
\* that lacks a key, the JSON null, and JSON followed by prose.
ReplyTexts ==
  LET full == Json("{\"detailedPropertySummary\":...,\"suggestedOfferRange\":...}", FullAnalysis)
      noOfferRange == Json("{\"detailedPropertySummary\":...,\"buyerProfiles\":...}",
                           AnalysisNoOfferRange)
  IN {JText(<<full>>),
      JText(<<FenceJson, Newline, full, Newline, Fence>>),
      JText(<<noOfferRange>>),
      JText(<<Json("null", JNull)>>),
      JText(<<full, Newline, Token("prose", "Let me know if you need more.", JUndef)>>)}

\* The errors JSON.parse and a method call on undefined throw, by message.
SyntaxError == JStr("Unexpected token")

ReplaceOfUndefined == JStr("Cannot read properties of undefined (reading 'replace')")

Thrown(e) == [kind |-> "throw", value |-> e]

Returned(value) == [kind |-> "return", value |-> value]

RECURSIVE DropFirstFence(_)
DropFirstFence(tokens) ==
  IF tokens = <<>> THEN <<>>
  ELSE IF Head(tokens).kind = "fence" THEN Tail(tokens)
  ELSE <<Head(tokens)>> \o DropFirstFence(Tail(tokens))

\* A variant of ReplaceFences for a pattern without the flag g: the first
\* fence only is taken out.
ReplaceFirstFence(text) == JText(DropFirstFence(Lex(text)))

\* text.replace(/```json|```/g, ''): the fences are taken out.
ReplaceFences(text) == JText(SelectSeq(Lex(text), LAMBDA t : t.kind # "fence"))

RECURSIVE TrimStart(_)
TrimStart(tokens) ==
  IF tokens # <<>> /\ Head(tokens).kind = "space" THEN TrimStart(Tail(tokens)) ELSE tokens

RECURSIVE TrimEnd(_)
TrimEnd(tokens) ==
  IF tokens # <<>> /\ tokens[Len(tokens)].kind = "space"
  THEN TrimEnd(SubSeq(tokens, 1, Len(tokens) - 1))
  ELSE tokens

\* text.trim()
Trim(text) == JText(TrimEnd(TrimStart(Lex(text))))

\* A bracket, brace, colon or comma of JSON.
Punct(text) == Token("punct", text, JUndef)

\* The literal of a string.
Quoted(str) == Token("str", "\"" \o str \o "\"", JStr(str))

RECURSIVE Serialize(_), Elements(_, _), Members(_, _)
\* The tokens JSON.stringify writes for a value: a string literal, an array
\* with its elements in order, an object with its members in order, null.
Serialize(x) ==
  CASE x.jt = "string" -> <<Quoted(x.s)>>
    [] x.jt = "array" -> <<Punct("[")>> \o Elements(x.v, 1) \o <<Punct("]")>>
    [] x.jt = "object" ->
         <<Punct("{")>> \o Members(SelectSeq(x.v, LAMBDA f : f[2].jt # "undefined"), 1)
           \o <<Punct("}")>>
    [] OTHER -> <<Token("lit", "null", JNull)>>

Elements(elems, k) ==
  IF k > Len(elems) THEN <<>>
  ELSE (IF k > 1 THEN <<Punct(",")>> ELSE <<>>) \o Serialize(elems[k]) \o Elements(elems, k + 1)

\* A member with the value undefined is left out.
Members(fields, k) ==
  IF k > Len(fields) THEN <<>>
  ELSE (IF k > 1 THEN <<Punct(",")>> ELSE <<>>)
         \o <<Quoted(fields[k][1]), Punct(":")>> \o Serialize(fields[k][2])
         \o Members(fields, k + 1)

\* A variant of JsonStringify: String(value), as a template string gives it.
StringOf(value) ==
  IF value.jt = "string" THEN value
  ELSE JText(<<Token("prose", "[object Object]", JUndef)>>)

\* JSON.stringify(value) of lines 1036 and 1131: undefined for undefined.
JsonStringify(value) == IF value.jt = "undefined" THEN JUndef ELSE JText(Serialize(value))

NoValue == [ok |-> FALSE, value |-> JUndef, next |-> 0]

Value(value, next) == [ok |-> TRUE, value |-> value, next |-> next]

Is(tokens, i, text) == i <= Len(tokens) /\ tokens[i].kind = "punct" /\ tokens[i].text = text

RECURSIVE ParseValue(_, _), ParseElements(_, _, _), ParseMembers(_, _, _)
\* The value that starts at token i, and the token after it.
ParseValue(tokens, i) ==
  IF i > Len(tokens) THEN NoValue
  ELSE IF tokens[i].kind \in {"str", "lit"} THEN Value(tokens[i].value, i + 1)
  ELSE IF Is(tokens, i, "[")
       THEN IF Is(tokens, i + 1, "]") THEN Value(JArr(<<>>), i + 2)
            ELSE ParseElements(tokens, i + 1, <<>>)
  ELSE IF Is(tokens, i, "{")
       THEN IF Is(tokens, i + 1, "}") THEN Value(JObj(<<>>), i + 2)
            ELSE ParseMembers(tokens, i + 1, <<>>)
  ELSE NoValue

ParseElements(tokens, i, elems) ==
  LET x == ParseValue(tokens, i) IN
    IF ~x.ok THEN NoValue
    ELSE IF Is(tokens, x.next, ",") THEN ParseElements(tokens, x.next + 1, Append(elems, x.value))
    ELSE IF Is(tokens, x.next, "]") THEN Value(JArr(Append(elems, x.value)), x.next + 1)
    ELSE NoValue

ParseMembers(tokens, i, fields) ==
  IF ~(i <= Len(tokens) /\ tokens[i].kind = "str" /\ Is(tokens, i + 1, ":")) THEN NoValue
  ELSE LET x == ParseValue(tokens, i + 2)
           field == <<tokens[i].value.s, x.value>>
       IN IF ~x.ok THEN NoValue
          ELSE IF Is(tokens, x.next, ",")
               THEN ParseMembers(tokens, x.next + 1, Append(fields, field))
          ELSE IF Is(tokens, x.next, "}") THEN Value(JObj(Append(fields, field)), x.next + 1)
          ELSE NoValue

\* JSON.parse(text): the value of the one serialization in the text, kept as
\* one token or written out by Serialize, which white space may surround; a
\* SyntaxError for any other text.
JsonParse(text) ==
  LET tokens == SelectSeq(Lex(text), LAMBDA t : t.kind # "space") IN
    IF Len(tokens) = 1 /\ tokens[1].kind = "json"
    THEN Returned(tokens[1].value)
    ELSE LET x == ParseValue(tokens, 1) IN
           IF x.ok /\ x.next = Len(tokens) + 1 THEN Returned(x.value) ELSE Thrown(SyntaxError)

\* JSON.parse(responseText.replace(/```json|```/g, '').trim()) of line 1015; the
\* method call on a responseText that is undefined throws a TypeError.
ParseReply(responseText) ==
  IF responseText.jt # "string" THEN Thrown(ReplaceOfUndefined)
  ELSE JsonParse(Trim(ReplaceFences(responseText)))

\* The response that carries a text in the envelope of the endpoint.
Reply(text) == Http(200, Envelope(JArr(<< Part(<< <<"text", text>> >>) >>)))

\* What the last request of a lead analysis can settle with.
AnalysisResponses == Responses \cup {Reply(text) : text \in ReplyTexts}

\* callGeminiApi at its last attempt, the request issued.
LastAttempt == [IdleCall EXCEPT !.pc = "fetch", !.i = maxRetries - 1, !.requests = maxRetries]

\* What `await callGeminiApi(payload)` gives its caller when the request that
\* ends the invocation settles with r: the text, or the error thrown.
ApiOutcome(r) == Settle(LastAttempt, r).result

\* Why an invocation that r ended has failed: the request did not get through
\* (no response, a rate-limit or server error status), or its response was not
\* of the expected form.
Cause(r) == IF r.kind = "reject" \/ ~ResponseOk(r) THEN "transport" ELSE "malformed"

(***************************************************************************)
(* The controls that call callGeminiApi, each from the click that starts   *)
(* its handler to the end of the handler.  A disabled button takes no      *)
(* click, and React renders the state a click has set before the next      *)
(* click is handled.                                                       *)
(***************************************************************************)
MaxComps == 1

\* What a handler of an AI-backed control leaves alone.
genFrame ==
  <<apiVars, authVars, viewVars, storeVars, handlerVars, modalVars, outstanding, calcVars,
    parseVars>>

\* A variant of FailureNotice that leaves the message of the error out.
FailureNoticeGeneric(op, e) ==
  CASE op = "findLeads" -> "Failed to generate leads."
    [] op = "generateOfferLetter" -> "Failed to generate offer letter."
    [] op = "runMarketAnalysis" -> "Failed to run market analysis."
    [] op = "runAutomatedLeadSearch" -> "Failed to auto-generate leads."

\* The messages of the catch blocks of lines 1018, 1099, 1139 and 1262.
FailureNotice(op, e) ==
  CASE op = "findLeads" -> "Failed to generate leads: " \o e.s
    [] op = "generateOfferLetter" -> "Failed to generate offer letter: " \o e.s
    [] op = "runMarketAnalysis" -> "Failed to run market analysis: " \o e.s
    [] op = "runAutomatedLeadSearch" -> "Failed to auto-generate leads: " \o e.s

Started(op) == running' = [running EXCEPT ![op] = @ + 1]

Finished(op) == running' = [running EXCEPT ![op] = @ - 1]

\* A variant of FindLeads for a Generate Lead button that is never disabled.
FindLeadsAnyTime ==
  /\ mounted = "mounted"
  /\ running["findLeads"] < MaxOutstanding
  /\ isLoading' = TRUE
  /\ error' = JNull
  /\ results' = JNull
  /\ Started("findLeads")
  /\ \E image \in {"none", "readable", "unreadable"} :
       toast' = IF image = "unreadable" THEN showToast("Error processing image.", TRUE) ELSE toast
  /\ details' = propertyDetails
  /\ UNCHANGED <<genFrame, propertyDetails, lastOp, isGeneratingOffer, isMarketAnalysisLoading,
                 showOfferLetterModal, offerLetterContent, marketTrendAnalysis, compsData>>

\* A click on Generate Lead (lines 236-239, disabled={isLoading}):
\* handleFindLeads calls findLeads, which runs up to the await of callGeminiApi
\* (lines 972-1014); an image that cannot be read is reported on the way.
FindLeads ==
  /\ mounted = "mounted"
  /\ ~isLoading
  /\ isLoading' = TRUE
  /\ error' = JNull
  /\ results' = JNull
  /\ Started("findLeads")
  /\ \E image \in {"none", "readable", "unreadable"} :
       toast' = IF image = "unreadable" THEN showToast("Error processing image.", TRUE) ELSE toast
  /\ details' = propertyDetails
  /\ UNCHANGED <<genFrame, propertyDetails, lastOp, isGeneratingOffer, isMarketAnalysisLoading,
                 showOfferLetterModal, offerLetterContent, marketTrendAnalysis, compsData>>

\* A variant of FindLeadsSettles without the finally block: the flag is reset
\* at the end of the try block only.
FindLeadsSettlesNoFinally ==
  /\ running["findLeads"] > 0
  /\ \E r \in AnalysisResponses :
       LET out == ApiOutcome(r)
           parsed == IF out.kind = "throw" THEN out ELSE ParseReply(out.value)
       IN IF parsed.kind = "return"
          THEN /\ results' = parsed.value
               /\ lastOp' = Outcome("findLeads", FALSE, "")
               /\ isLoading' = FALSE
               /\ UNCHANGED error
          ELSE /\ error' = JStr(FailureNotice("findLeads", parsed.value))
               /\ lastOp' = Outcome("findLeads", TRUE, Cause(r))
               /\ UNCHANGED <<results, isLoading>>
  /\ Finished("findLeads")
  /\ UNCHANGED <<genFrame, formVars, toast, isGeneratingOffer, isMarketAnalysisLoading,
                 showOfferLetterModal, offerLetterContent, marketTrendAnalysis, compsData>>

\* callGeminiApi has settled and findLeads runs to its end (lines 1014-1022):
\* the parsed value is stored as it is, or the error is set; finally the flag
\* is reset.
FindLeadsSettles ==
  /\ running["findLeads"] > 0
  /\ \E r \in AnalysisResponses :
       LET out == ApiOutcome(r)
           parsed == IF out.kind = "throw" THEN out ELSE ParseReply(out.value)
       IN IF parsed.kind = "return"
          THEN /\ results' = parsed.value
               /\ lastOp' = Outcome("findLeads", FALSE, "")
               /\ UNCHANGED error
          ELSE /\ error' = JStr(FailureNotice("findLeads", parsed.value))
               /\ lastOp' = Outcome("findLeads", TRUE, Cause(r))
               /\ UNCHANGED results
  /\ isLoading' = FALSE
  /\ Finished("findLeads")
  /\ UNCHANGED <<genFrame, formVars, toast, isGeneratingOffer, isMarketAnalysisLoading,
                 showOfferLetterModal, offerLetterContent, marketTrendAnalysis, compsData>>

\* The lead with generatedResults: JSON.stringify(genResults) (lines 1036, 1131).
Analysed(lead, value) ==
  [lead EXCEPT !.generatedResults = JsonStringify(value), !.genResults = value]

\* A click on Save Lead (lines 279-285), which is rendered when results is
\* truthy: handleSaveIdea calls saveIdea(propertyDetails, results, ...), which
\* runs up to its await (lines 1026-1040).
SaveLeadClicked ==
  /\ mounted = "mounted"
  /\ Truthy(results)
  /\ IF Unavailable(dbInstance, userId)
     THEN NoWrite /\ Fails("saveIdea") /\ UNCHANGED outstanding
     ELSE /\ \E ok \in BOOLEAN :
               /\ IF ok THEN AddDoc(Analysed(Lead(nextId, userId, propertyDetails, "-", "New"),
                                              results), userId)
                        ELSE RejectedWrite("addDoc", userId)
               /\ Awaits(Suspended("saveIdea", userId, 0, "", 0, ok))
          /\ UNCHANGED noteVars
  /\ UNCHANGED <<clickFrame, modalVars>>

\* A lead that saveIdea or runAutomatedLeadSearch stored has the field
\* generatedResults; a county lead (lines 1153-1176) has not.
HasGeneratedResults(idea) == idea.source # "county"

\* A click on Generate Offer of a listed lead (lines 426-429,
\* disabled={isGeneratingOffer}): generateOfferLetter(idea) up to the await of
\* callGeminiApi.  JSON.parse(generatedResults) of line 1085 is outside the try
\* block: on a lead without the field it throws, and the function ends there.
GenerateOffer ==
  /\ mounted = "mounted"
  /\ ~isGeneratingOffer
  /\ ~showOfferLetterModal
  /\ isGeneratingOffer' = TRUE
  /\ \E idea \in savedIdeas :
       IF HasGeneratedResults(idea)
       THEN Started("generateOfferLetter") /\ UNCHANGED lastOp
       ELSE lastOp' = Outcome("generateOfferLetter", TRUE, "input") /\ UNCHANGED running
  /\ UNCHANGED <<genFrame, formVars, toast, isLoading, isMarketAnalysisLoading, results, error,
                 showOfferLetterModal, offerLetterContent, marketTrendAnalysis, compsData>>

\* callGeminiApi has settled and generateOfferLetter runs to its end (lines
\* 1094-1102).
GenerateOfferSettles ==
  /\ running["generateOfferLetter"] > 0
  /\ \E r \in Responses :
       LET out == ApiOutcome(r) IN
         IF out.kind = "return"
         THEN /\ offerLetterContent' = out.value
              /\ showOfferLetterModal' = TRUE
              /\ lastOp' = Outcome("generateOfferLetter", FALSE, "")
              /\ UNCHANGED toast
         ELSE /\ toast' = showToast(FailureNotice("generateOfferLetter", out.value), TRUE)
              /\ lastOp' = Outcome("generateOfferLetter", TRUE, Cause(r))
              /\ UNCHANGED <<offerLetterContent, showOfferLetterModal>>
  /\ isGeneratingOffer' = FALSE
  /\ Finished("generateOfferLetter")
  /\ UNCHANGED <<genFrame, formVars, isLoading, isMarketAnalysisLoading, results, error,
                 marketTrendAnalysis, compsData>>

\* The offer letter is closed: onClose of line 1421.
OfferLetterClosed ==
  /\ mounted = "mounted"
  /\ showOfferLetterModal
  /\ showOfferLetterModal' = FALSE
  /\ UNCHANGED <<genFrame, formVars, noteVars, isLoading, isGeneratingOffer, isMarketAnalysisLoading,
                 results, error, offerLetterContent, marketTrendAnalysis, compsData, running>>

\* A click on Add Comp with a price typed in: addComp (lines 494-500).
AddComp ==
  /\ mounted = "mounted"
  /\ compsData < MaxComps
  /\ compsData' = compsData + 1
  /\ UNCHANGED <<genFrame, formVars, noteVars, isLoading, isGeneratingOffer, isMarketAnalysisLoading,
                 results, error, showOfferLetterModal, offerLetterContent, marketTrendAnalysis,
                 running>>

\* A click on Run Market Analysis (lines 593-595, disabled while the flag is
\* set or the list of comps is empty): runMarketAnalysis up to its await.
RunMarketAnalysis ==
  /\ mounted = "mounted"
  /\ ~(isMarketAnalysisLoading \/ compsData = 0)
  /\ isMarketAnalysisLoading' = TRUE
  /\ Started("runMarketAnalysis")
  /\ UNCHANGED <<genFrame, formVars, noteVars, isLoading, isGeneratingOffer, results, error,
                 showOfferLetterModal, offerLetterContent, marketTrendAnalysis, compsData>>

\* callGeminiApi has settled and runMarketAnalysis runs to its end (lines
\* 1258-1265).
MarketAnalysisSettles ==
  /\ running["runMarketAnalysis"] > 0
  /\ \E r \in Responses :
       LET out == ApiOutcome(r) IN
         IF out.kind = "return"
         THEN /\ marketTrendAnalysis' = out.value
              /\ lastOp' = Outcome("runMarketAnalysis", FALSE, "")
              /\ UNCHANGED toast
         ELSE /\ toast' = showToast(FailureNotice("runMarketAnalysis", out.value), TRUE)
              /\ lastOp' = Outcome("runMarketAnalysis", TRUE, Cause(r))
              /\ UNCHANGED marketTrendAnalysis
  /\ isMarketAnalysisLoading' = FALSE
  /\ Finished("runMarketAnalysis")
  /\ UNCHANGED <<genFrame, formVars, isLoading, isGeneratingOffer, results, error, showOfferLetterModal,
                 offerLetterContent, compsData>>

\* A returning user opens the App.
InitGen == InitStore

\* The lead generator tab: an analysis is generated and saved.
NextGen ==
  \/ MountEffect \/ AuthReportsUser \/ IdeasSnapshot
  \/ FindLeads \/ FindLeadsSettles \/ SaveLeadClicked \/ WriteSettles

SpecGen == InitGen /\ [][NextGen]_vars

\* The four AI-backed controls, on the leads that the automated search stores.
NextAi ==
  \/ MountEffect \/ AuthReportsUser \/ IdeasSnapshot
  \/ FindLeads \/ FindLeadsSettles
  \/ GenerateOffer \/ GenerateOfferSettles \/ OfferLetterClosed
  \/ AddComp \/ RunMarketAnalysis \/ MarketAnalysisSettles
  \/ RunAutomatedLeadSearch \/ AutoApiFails \/ AutoApiReturns \/ AutoWrite

SpecAi == InitGen /\ [][NextAi]_vars

\* The deal flow tab: leads are imported or generated, and offer letters are
\* written for them.
NextDeal ==
  \/ MountEffect \/ AuthReportsUser \/ IdeasSnapshot
  \/ ImportClicked \/ ImportGoesOn \/ WriteSettles
  \/ RunAutomatedLeadSearch \/ AutoApiFails \/ AutoApiReturns \/ AutoWrite
  \/ GenerateOffer \/ GenerateOfferSettles \/ OfferLetterClosed

SpecDeal == InitGen /\ [][NextDeal]_vars

(***************************************************************************)
(* The automated lead search from the click on Auto-Generate to the        *)
(* notification that ends it, with the leads of the reply written one by   *)
(* one.                                                                    *)
(***************************************************************************)
MaxGenerated == 2

\* The property descriptions of the leads in the array of the reply.
GeneratedLeads == [k \in 1..MaxGenerated |-> "Lot " \o ToString(k) \o ", Elm St, Elkton, MD"]

\* The analysis of the k-th lead.
GeneratedResults(k) == IF k % 2 = 1 THEN FullAnalysis ELSE AnalysisNoOfferRange

\* The array of the first n leads, and its serialization.
LeadsArray(n) ==
  JArr([k \in 1..n |-> JObj(<< <<"propertyDetails", JStr(GeneratedLeads[k])>>,
                               <<"generatedResults", GeneratedResults(k)>> >>)])

\* What the request of the search can settle with: the responses of the
\* endpoint and replies with an array of leads, with null, or with one analysis.
SearchResponses ==
  Responses
    \cup {Reply(JText(<<Json("[...]", LeadsArray(n))>>)) : n \in 0..MaxGenerated}
    \cup {Reply(JText(<<FenceJson, Newline, Json("[...]", LeadsArray(1)), Newline, Fence>>)),
          Reply(JText(<<Json("null", JNull)>>)),
          Reply(JText(<<Json("{...}", FullAnalysis)>>))}

\* The errors of `for (const lead of newLeads)` on a value that is no array, of
\* collection() without a store handle, and of a write the store rejects.
NotIterable == JStr("newLeads is not iterable")

NoStoreHandle == JStr("Expected first argument to collection() to be a CollectionReference")

WriteRejected == JStr("Missing or insufficient permissions.")

\* The search ends: the toast of line 1137 or 1139, and the finally block.
SearchEnds(failed, e, cause) ==
  /\ toast' = IF failed THEN showToast(FailureNotice("runAutomatedLeadSearch", e), TRUE)
              ELSE showToast("Successfully generated and saved 5 new leads!", FALSE)
  /\ lastOp' = Outcome("runAutomatedLeadSearch", failed, cause)
  /\ auto' = IdleAuto
  /\ isAutoGenerating' = FALSE

\* await addDoc(ideasCollectionRef, {...}) for the k-th lead of an array of
\* k + left leads (lines 1127-1135): the write is issued and the search waits.
SearchWrites(k, left, pending) ==
  \E ok \in BOOLEAN :
    /\ IF ok THEN AddDoc(Analysed(Lead(nextId, auto.userId, GeneratedLeads[k], "-", "New"),
                                   Get(LeadsArray(k).v[k], "generatedResults")), auto.userId)
             ELSE RejectedWrite("addDoc", auto.userId)
    /\ outstanding' = pending
                        \o <<Suspended("runAutomatedLeadSearch", auto.userId, k, "", left, ok)>>
    /\ auto' = [auto EXCEPT !.pc = "write", !.left = left]
    /\ UNCHANGED <<noteVars, isAutoGenerating>>

\* What a step of the search leaves alone.
searchFrame ==
  <<apiVars, authVars, aiVars, modalVars, calcVars, formVars, parseVars, imp, userId, isAuthReady, dbInstance, savedIdeas,
    savedContacts, subs, effRun>>

\* callGeminiApi has settled and runAutomatedLeadSearch goes on to its first
\* addDoc, or to its end (lines 1121-1144).
SearchApiSettles ==
  /\ auto.pc = "api"
  /\ \E r \in SearchResponses :
       LET out == ApiOutcome(r)
           parsed == IF out.kind = "throw" THEN out ELSE ParseReply(out.value)
       IN IF parsed.kind = "throw"
          THEN SearchEnds(TRUE, parsed.value, Cause(r)) /\ NoWrite /\ UNCHANGED outstanding
          ELSE IF ~auto.db
          THEN SearchEnds(TRUE, NoStoreHandle, "store") /\ NoWrite /\ UNCHANGED outstanding
          ELSE IF parsed.value.jt # "array"
          THEN SearchEnds(TRUE, NotIterable, "malformed") /\ NoWrite /\ UNCHANGED outstanding
          ELSE IF Length(parsed.value) = 0
          THEN SearchEnds(FALSE, JUndef, "") /\ NoWrite /\ UNCHANGED outstanding
          ELSE SearchWrites(1, Length(parsed.value) - 1, outstanding)
  /\ UNCHANGED searchFrame

\* A variant of SearchWriteSettles that goes on to the next lead after a write
\* the store has rejected.
SearchWriteSettlesGoingOn ==
  /\ auto.pc = "write"
  /\ \E i \in 1..Len(outstanding) :
       LET e == outstanding[i] IN
         /\ e.op = "runAutomatedLeadSearch"
         /\ IF e.left = 0
            THEN /\ IF e.ok THEN SearchEnds(FALSE, JUndef, "")
                            ELSE SearchEnds(TRUE, WriteRejected, "store")
                 /\ outstanding' = Without(outstanding, i)
                 /\ NoWrite
            ELSE SearchWrites(e.id + 1, e.left - 1, Without(outstanding, i))
  /\ UNCHANGED searchFrame

\* The store has settled the addDoc the search awaits: the loop goes on to the
\* next lead, ends after the last one, or the rejection is caught (lines
\* 1126-1144).
SearchWriteSettles ==
  /\ auto.pc = "write"
  /\ \E i \in 1..Len(outstanding) :
       LET e == outstanding[i] IN
         /\ e.op = "runAutomatedLeadSearch"
         /\ IF ~e.ok
            THEN /\ SearchEnds(TRUE, WriteRejected, "store")
                 /\ outstanding' = Without(outstanding, i)
                 /\ NoWrite
            ELSE IF e.left = 0
            THEN /\ SearchEnds(FALSE, JUndef, "")
                 /\ outstanding' = Without(outstanding, i)
                 /\ NoWrite
            ELSE SearchWrites(e.id + 1, e.left - 1, Without(outstanding, i))
  /\ UNCHANGED searchFrame

NextSearch ==
  \/ MountEffect \/ AuthReportsUser \/ IdeasSnapshot
  \/ RunAutomatedLeadSearch \/ SearchApiSettles \/ SearchWriteSettles

SpecSearch == InitStore /\ [][NextSearch]_vars

(***************************************************************************)
(* Properties of the AI-backed controls.                                   *)
(***************************************************************************)
\* The in-flight flag of a control.
Flag(c) ==
  CASE c = "findLeads" -> isLoading
    [] c = "generateOfferLetter" -> isGeneratingOffer
    [] c = "runMarketAnalysis" -> isMarketAnalysisLoading

\* C11: each AI-backed control has at most one invocation in flight; while an
\* invocation is in flight the control's flag is set, and an invocation starts
\* only in a state where the flag is not set.
C11_OneInvocationInFlight ==
  /\ [](\A c \in AiControls : running[c] <= 1 /\ (running[c] = 1 => Flag(c)))
  /\ [](auto.pc # "idle" => isAutoGenerating)
  /\ [][\A c \in AiControls : running'[c] > running[c] => (~Flag(c) /\ running[c] = 0)]_vars
  /\ [][(auto.pc = "idle" /\ auto'.pc # "idle") => ~isAutoGenerating]_vars

\* All four controls have an invocation in flight, and findLeads has been
\* through one before.
C11_Witness ==
  /\ \A c \in AiControls : running[c] = 1 /\ Flag(c)
  /\ auto.pc = "write" /\ isAutoGenerating
  /\ lastOp.op = "findLeads"

\* The keys the prompt of lines 984-989 asks for.
AnalysisKeys ==
  {"detailedPropertySummary", "suggestedOfferRange", "buyerProfiles", "sellerOutreachAngles",
   "dueDiligenceChecklist"}

\* C13: results is null or a value with all five keys of the analysis, and
\* findLeads ends with results set or with the error set.
C13_OnlyCompleteAnalyses ==
  /\ results # JNull => \A key \in AnalysisKeys : Get(results, key) # JUndef
  /\ (lastOp.op = "findLeads" /\ ~isLoading) => (results # JNull \/ error # JNull)

\* The messages of the errors by the cause of the failure.
Messages(cause) ==
  IF cause = "transport" THEN {NetworkError, ApiError}
  ELSE {JsonError, FormatError, SyntaxError, ReplaceOfUndefined}

\* The values of `error` a failed findLeads can leave.
ErrorStates(cause) == {JStr(FailureNotice("findLeads", e)) : e \in Messages(cause)}

\* C14: after a findLeads that failed, the error shown is one of the transport
\* failures exactly if the last request got no response or an error status, and
\* one of the malformed-response failures otherwise; no error value belongs to
\* both kinds.
C14_FailureKindsDistinguishable ==
  /\ (lastOp.op = "findLeads" /\ lastOp.failed /\ ~isLoading) =>
        error \in ErrorStates(lastOp.cause)
  /\ ErrorStates("transport") \cap ErrorStates("malformed") = {}

\* A findLeads has ended on a reply that does not parse, with the error set.
C14_Witness ==
  /\ lastOp = Outcome("findLeads", TRUE, "malformed")
  /\ ~isLoading
  /\ error = JStr(FailureNotice("findLeads", SyntaxError))
  /\ results = JNull

\* The failure toasts of an operation.
FailureToasts(op) ==
  IF op \in AiControls
  THEN {showToast(FailureNotice(op, e), TRUE) : e \in Messages("transport") \cup Messages("malformed")}
  ELSE {showToast(FailureMessage(op), TRUE)}

\* C15: a step in which an operation ends in failure leaves its failure toast
\* on the page or the error field set, and no control stays disabled with no
\* invocation in flight.
C15_EveryFailureNotified ==
  /\ [][(lastOp' # lastOp /\ lastOp'.failed) =>
          \/ toast' \in FailureToasts(lastOp'.op)
          \/ lastOp'.op = "findLeads" /\ error' # JNull]_vars
  /\ [](\A c \in AiControls : Flag(c) => running[c] = 1)

(***************************************************************************)
(* Properties of the lead generator's state.                               *)
(***************************************************************************)
\* C30: while findLeads is in flight (isLoading) results and error are both
\* null; results and error are never both set; and Save Lead, which is offered
\* only for a truthy results, is not offered while a request is in flight.
C30_ResultsAndErrorExclusive ==
  /\ isLoading => (results = JNull /\ error = JNull)
  /\ ~(results # JNull /\ error # JNull)
  /\ isLoading => ~Truthy(results)

\* A second request is in flight after a first one that left an analysis and
\* a saved lead behind.
C30_Witness ==
  /\ isLoading /\ running["findLeads"] = 1
  /\ lastOp.op = "saveIdea"
  /\ \E d \in store : d.coll = "ideas"

\* C25: in the step that ends an invocation of an AI-backed action, with
\* success or with failure, the in-flight flag of the action is reset.
C25_FlagResetWhenInvocationEnds ==
  /\ [][\A c \in AiControls :
          (running'[c] < running[c] \/ (lastOp' # lastOp /\ lastOp'.op = c)) => ~Flag(c)']_vars
  /\ [][(auto.pc # "idle" /\ auto'.pc = "idle") => ~isAutoGenerating']_vars

(***************************************************************************)
(* Properties of the confirmation modals.                                  *)
(***************************************************************************)
\* C28: the completion of deleteIdea(id) or deleteContact(id) leaves the
\* confirmation modal open when it is open for another document than id.
C28_DeleteClosesOwnModalOnly ==
  [][\A e \in Entries :
       /\ (e.op = "deleteIdea" /\ Ended(e) /\ showIdeaDeleteModal /\ ideaToDelete # e.id)
             => showIdeaDeleteModal'
       /\ (e.op = "deleteContact" /\ Ended(e) /\ showContactDeleteModal /\ contactToDelete # e.id)
             => showContactDeleteModal']_vars

(***************************************************************************)
(* Properties of the sign-in and of the subscriptions that follow it.      *)
(***************************************************************************)
\* The listener callback takes a report of no user off the queue.
ReportsNoUser ==
  /\ mounted = "mounted" /\ mounted' = "mounted"
  /\ authQueue # <<>> /\ Head(authQueue) = NullUser /\ authQueue' = Tail(authQueue)

\* C26: when the listener reports no user a sign-in is started, with the
\* custom token when there is one and anonymously otherwise; an anonymous
\* sign-in follows a token sign-in only when that one has failed; userId is
\* set only to a user the listener reports; and there are subscriptions only
\* while auth is ready, the store handle is set and userId is not null, for
\* the collections of that userId.
C26_SignInThenSubscribe ==
  /\ [][ReportsNoUser => signIn' = IF initialAuthToken THEN "token" ELSE "anon"]_vars
  /\ [][(signIn # "token" /\ signIn' = "token") => (ReportsNoUser /\ initialAuthToken)]_vars
  /\ [][(signIn # "anon" /\ signIn' = "anon") =>
          \/ ReportsNoUser /\ ~initialAuthToken
          \/ signIn = "token" /\ authUser' = authUser]_vars
  /\ [][signIn = "token" => signIn' \in {"token", "anon", "resume"}]_vars
  /\ [][userId' # userId =>
          /\ authQueue # <<>> /\ authQueue' = Tail(authQueue)
          /\ userId' = Head(authQueue) /\ userId' # NullUser]_vars
  /\ [](subs # {} => /\ isAuthReady /\ dbInstance /\ userId # NullUser
                     /\ \A sub \in subs : sub.uid = userId)

\* The token sign-in of a user whose session ended has failed and the
\* anonymous sign-in is under way, beside the subscriptions of the first user.
C26_Witness ==
  /\ initialAuthToken
  /\ signIn = "anon"
  /\ sessionEnds = 1
  /\ subs # {} /\ userId # NullUser

(***************************************************************************)
(* Properties of the automated lead search.                                *)
(***************************************************************************)
\* The write the search awaits, if there is one.
SearchPending ==
  {outstanding[i] : i \in {j \in 1..Len(outstanding) : outstanding[j].op = "runAutomatedLeadSearch"}}

SearchSucceeded == showToast("Successfully generated and saved 5 new leads!", FALSE)

\* C29: the search stores the leads of the array one per step and in array
\* order, the k-th only when the write of the one before was accepted; it
\* notifies success only when the write of the last lead was accepted (or the
\* array is empty); and when the write of the k-th lead is rejected, the store
\* keeps the k-1 leads written before, no further write is issued, the failure
\* is notified and the search is over.
C29_LeadsWrittenInOrder ==
  /\ [][\A d \in store' \ store :
          \E e \in SearchPending' :
            /\ store' = store \cup {d}
            /\ e.ok /\ d.propertyDetails = GeneratedLeads[e.id] /\ d.path = e.userId
            /\ IF e.id = 1 THEN auto.pc = "api"
               ELSE \E f \in SearchPending : f.ok /\ f.id = e.id - 1]_vars
  /\ [][(auto.pc # "idle" /\ auto'.pc = "idle" /\ toast' = SearchSucceeded) =>
          \/ auto.pc = "api" /\ store' = store
          \/ \E f \in SearchPending : f.ok /\ f.left = 0]_vars
  /\ [][\A f \in SearchPending :
          (~f.ok /\ f \notin SearchPending') =>
             /\ store' = store /\ opLog' = opLog
             /\ SearchPending' = {}
             /\ auto' = IdleAuto
             /\ toast' = showToast(FailureNotice("runAutomatedLeadSearch", WriteRejected), TRUE)
             /\ lastOp' = Outcome("runAutomatedLeadSearch", TRUE, "store")]_vars
  /\ [](\A f \in SearchPending :
          \A j \in 1..(f.id - 1) :
            \E d \in store : d.path = f.userId /\ d.propertyDetails = GeneratedLeads[j])

\* The write of the second lead of an array was rejected: the search has ended
\* in failure and the first lead is stored, the second is not.
C29_Witness ==
  /\ lastOp = Outcome("runAutomatedLeadSearch", TRUE, "store")
  /\ toast = showToast(FailureNotice("runAutomatedLeadSearch", WriteRejected), TRUE)
  /\ auto = IdleAuto /\ ~isAutoGenerating
  /\ \E d \in store : d.propertyDetails = GeneratedLeads[1]
  /\ \A d \in store : d.propertyDetails # GeneratedLeads[2]


(***************************************************************************)
(* Reading a reply that is wrapped in a code fence (lines 1015 and 1122):  *)
(* every text of up to MaxTokens tokens is read bare and wrapped.          *)
(***************************************************************************)
MaxTokens == 3

\* The tokens a text is made of.
Words ==
  {FenceJson, Fence, Newline,
   Json("{\"detailedPropertySummary\":...,\"suggestedOfferRange\":...}", FullAnalysis),
   Json("null", JNull),
   Token("prose", "Here is the analysis:", JUndef)}

Texts == {JText(tokens) : tokens \in UNION {[1..n -> Words] : n \in 0..MaxTokens}}

\* The text between a fence with the language tag and a closing fence, each on
\* a line of its own.
Wrap(text) == JText(<<FenceJson, Newline>> \o Lex(text) \o <<Newline, Fence>>)

InitParse ==
  /\ ApiAtRest /\ SyncAtRest /\ ControlsAtRest
  /\ replyText \in Texts
  /\ parsedResults = <<>>

\* The text is read as lines 1015 and 1122 read a reply, bare and wrapped.
ReplyRead ==
  /\ parsedResults = <<>>
  /\ parsedResults' = <<ParseReply(replyText), ParseReply(Wrap(replyText))>>
  /\ UNCHANGED <<apiVars, authVars, viewVars, storeVars, handlerVars, aiVars, modalVars,
                 outstanding, noteVars, calcVars, formVars, replyText>>

NextParse == ReplyRead

SpecParse == InitParse /\ [][NextParse]_vars

\* C23: a text wrapped in a code fence is read as the text itself is: both
\* readings give the same value, or both fail.
C23_FencedTextParsesAlike ==
  parsedResults # <<>> =>
    /\ parsedResults[1].kind = parsedResults[2].kind
    /\ parsedResults[1].kind = "return" => parsedResults[1].value = parsedResults[2].value

\* A text with a fence of its own was read, bare and wrapped, and gave the analysis.
C23_Witness ==
  /\ parsedResults # <<>>
  /\ \E k \in 1..Len(Lex(replyText)) : Lex(replyText)[k].kind = "fence"
  /\ parsedResults[2] = Returned(FullAnalysis)


(***************************************************************************)
(* The financial calculator (FinancialAnalysis, lines 467-538): the five   *)
(* inputs of type number and the effect of lines 478-492 that follows      *)
(* every change of one of them.                                            *)
(***************************************************************************)
\* A JavaScript number: NaN, or a finite number (whole, in this model).
NaN == [nan |-> TRUE, n |-> 0]

Number(n) == [nan |-> FALSE, n |-> n]

\* What an input of type number can hold (lines 523-527): the empty string when
\* what was typed is not a number, or the digits of a number.
Amounts == {"", "0", "-5000", "2000", "5000", "10000", "100000", "150000"}

\* parseFloat(str) for the strings of Amounts.
parseFloat(str) ==
  CASE str = "" -> NaN
    [] str = "0" -> Number(0)
    [] str = "-5000" -> Number(0 - 5000)
    [] str = "2000" -> Number(2000)
    [] str = "5000" -> Number(5000)
    [] str = "10000" -> Number(10000)
    [] str = "100000" -> Number(100000)
    [] str = "150000" -> Number(150000)

\* x || 0 for a number x: NaN and 0 are falsy.
OrZero(x) == IF x.nan \/ x.n = 0 THEN 0 ELSE x.n

RECURSIVE Gcd(_, _)
Gcd(a, b) == IF b = 0 THEN a ELSE Gcd(b, a % b)

\* num / den for den > 0, to the nearest whole number.
Nearest(num, den) == (2 * num + den) \div (2 * den)

\* (num / den) * 100 for den > 0, in hundredths; the fraction is reduced first,
\* which keeps the products small and changes nothing else.
Percent(num, den) ==
  LET g == Gcd(den, IF num < 0 THEN 0 - num ELSE num)
  IN Nearest((num \div g) * 100 * 100, den \div g)

\* A variant of totalCosts that leaves the holding costs out.
totalCostsNoHolding(p, c, r, h) == p + c + r

\* const totalCosts = p + c + r + h (line 485)
totalCosts(p, c, r, h) == p + c + r + h

\* calculatedProfit of line 486, from the strings of the five inputs.
calculatedProfit(purchase, sales, closing, rehab, holding) ==
  OrZero(parseFloat(sales))
    - totalCosts(OrZero(parseFloat(purchase)), OrZero(parseFloat(closing)),
                 OrZero(parseFloat(rehab)), OrZero(parseFloat(holding)))

\* calculatedRoi of line 487, in hundredths of a percent as toFixed(2) of line
\* 536 shows it.
calculatedRoi(purchase, sales, closing, rehab, holding) ==
  LET total == totalCosts(OrZero(parseFloat(purchase)), OrZero(parseFloat(closing)),
                          OrZero(parseFloat(rehab)), OrZero(parseFloat(holding)))
      gain == calculatedProfit(purchase, sales, closing, rehab, holding)
  IN IF total > 0 THEN Percent(gain, total) ELSE 0

\* The user changes one of the five inputs (onChange of lines 523-527) and the
\* effect of lines 478-492 runs on the render that follows.
AmountTyped ==
  /\ mounted = "mounted"
  /\ \E field \in 1..5, str \in Amounts :
       /\ purchasePrice' = IF field = 1 THEN str ELSE purchasePrice
       /\ salesPrice' = IF field = 2 THEN str ELSE salesPrice
       /\ closingCosts' = IF field = 3 THEN str ELSE closingCosts
       /\ rehabCosts' = IF field = 4 THEN str ELSE rehabCosts
       /\ holdingCosts' = IF field = 5 THEN str ELSE holdingCosts
  /\ profit' = calculatedProfit(purchasePrice', salesPrice', closingCosts', rehabCosts',
                                holdingCosts')
  /\ roi' = calculatedRoi(purchasePrice', salesPrice', closingCosts', rehabCosts', holdingCosts')
  /\ UNCHANGED <<apiVars, authVars, viewVars, storeVars, handlerVars, aiVars, modalVars,
                 outstanding, noteVars, formVars, parseVars>>

NextCalc == MountEffect \/ AmountTyped

SpecCalc == InitStore /\ [][NextCalc]_vars

\* The amount an input stands for: the number typed, 0 for an empty input.
Amount(str) == IF str = "" THEN 0 ELSE parseFloat(str).n

\* C21: the profit is the sales price less the four costs, the ROI is the
\* profit as a percentage of the four costs when these are above 0 and 0
\* otherwise, and (100000, 150000, 5000, 10000, 2000) gives 33000 and 28.21.
\* (The amounts are whole thousands, and the ROI is compared in thousands.)
C21_ProfitAndRoi ==
  LET costs == Amount(purchasePrice) + Amount(closingCosts) + Amount(rehabCosts)
                 + Amount(holdingCosts)
      k == costs \div 1000
      g == (Amount(salesPrice) - costs) \div 1000
  IN /\ profit = Amount(salesPrice) - costs
     /\ costs > 0 => /\ 2 * k * roi <= 2 * g * 10000 + k
                     /\ 2 * k * roi > 2 * g * 10000 - k
     /\ costs <= 0 => roi = 0
     /\ <<purchasePrice, salesPrice, closingCosts, rehabCosts, holdingCosts>>
          = <<"100000", "150000", "5000", "10000", "2000">>
        => profit = 33000 /\ roi = 2821

\* The five amounts of the example have been typed.
C21_Witness ==
  /\ <<purchasePrice, salesPrice, closingCosts, rehabCosts, holdingCosts>>
       = <<"100000", "150000", "5000", "10000", "2000">>
  /\ profit = 33000


(***************************************************************************)
(* The dashboard (lines 725-803) over the leads of a user who has used the *)
(* store before: the documents are there when the page is opened, and some *)
(* were written without the field status.                                  *)
(***************************************************************************)
MaxLeads == 3

\* The status of a stored lead: one of the select, or "-" for none.
StoredStatuses == {"New", "Contacted", "Sold", "-"}

\* A variant of StatusOf without the default.
StatusOfNoDefault(idea) == idea.status

\* const status = idea.status || 'New' (line 728)
StatusOf(idea) == IF idea.status \in {"-", ""} THEN "New" ELSE idea.status

RECURSIVE leadStatuses(_)
\* savedIdeas.reduce(..., {}) of lines 727-731: acc[status] = (acc[status] || 0) + 1
leadStatuses(ideas) ==
  IF ideas = {} THEN [status \in {} |-> 0]
  ELSE LET idea == CHOOSE x \in ideas : TRUE
           acc == leadStatuses(ideas \ {idea})
           status == StatusOf(idea)
       IN IF status \in DOMAIN acc THEN [acc EXCEPT ![status] = @ + 1]
                                   ELSE acc @@ (status :> 1)

InitDash ==
  /\ ApiAtRest /\ UiAtRest
  /\ app = TRUE /\ initialAuthToken = FALSE /\ authUser = "u1"
  /\ mounted = "new" /\ authQueue = <<>> /\ signIn = "none" /\ sessionEnds = 0
  /\ endedSession = NullUser
  /\ userId = NullUser /\ isAuthReady = FALSE /\ dbInstance = FALSE
  /\ savedIdeas = {} /\ savedContacts = {}
  /\ subs = {} /\ effRun = 0 /\ ideasInbox = <<>> /\ contactsInbox = <<>>
  /\ \E n \in 0..MaxLeads : \E status \in [1..n -> StoredStatuses] :
       /\ store = {Lead(k, "u1", Described, "-", status[k]) : k \in 1..n}
       /\ nextId = n + 1
  /\ opLog = {}
  /\ auto = IdleAuto /\ imp = IdleImport /\ isAutoGenerating = FALSE

\* The page is opened and the leads arrive.
NextDash == MountEffect \/ AuthReportsUser \/ IdeasSnapshot

SpecDash == InitDash /\ [][NextDash]_vars

RECURSIVE Total(_)
\* The sum of the counts of a mapping.
Total(counts) ==
  IF DOMAIN counts = {} THEN 0
  ELSE LET status == CHOOSE x \in DOMAIN counts : TRUE
       IN counts[status] + Total([x \in DOMAIN counts \ {status} |-> counts[x]])

\* The leads counted under a status: those that have it and, under New, those
\* that have none.
CountedUnder(status) ==
  {idea \in savedIdeas : idea.status = status \/ (status = "New" /\ idea.status = "-")}

\* C22: the mapping of the dashboard has a key for each status that a lead of
\* the list has (New for a lead without status) and none else, each with the
\* number of these leads; it is empty for an empty list, and the counts add up
\* to the number of leads.
C22_StatusCounts ==
  LET counts == leadStatuses(savedIdeas) IN
    /\ DOMAIN counts = {status \in Statuses : CountedUnder(status) # {}}
    /\ \A status \in DOMAIN counts :
         counts[status] = Cardinality(CountedUnder(status)) /\ counts[status] > 0
    /\ savedIdeas = {} => DOMAIN counts = {}
    /\ Total(counts) = Cardinality(savedIdeas)

\* The leads [{status: 'New'}, {}, {status: 'Sold'}] are on the dashboard, and
\* the mapping is {New: 2, Sold: 1}.
C22_Witness ==
  /\ {idea.status : idea \in savedIdeas} = {"New", "-", "Sold"}
  /\ Cardinality(savedIdeas) = 3
  /\ DOMAIN leadStatuses(savedIdeas) = {"New", "Sold"}
  /\ leadStatuses(savedIdeas)["New"] = 2
  /\ leadStatuses(savedIdeas)["Sold"] = 1


(***************************************************************************)
(* The form of the lead generator (lines 200-239): the description can be  *)
(* changed at any time, also while an analysis is on its way or on the     *)
(* page.                                                                   *)
(***************************************************************************)
\* The descriptions typed into the form.
Descriptions == {Described, "3 bedroom house on Oak St"}

\* onChange of the textarea (line 206): setPropertyDetails(e.target.value)
DetailsTyped ==
  /\ mounted = "mounted"
  /\ \E str \in Descriptions : propertyDetails' = str
  /\ UNCHANGED <<apiVars, authVars, viewVars, storeVars, handlerVars, aiVars, modalVars,
                 outstanding, noteVars, calcVars, parseVars, details>>

NextForm ==
  \/ MountEffect \/ AuthReportsUser \/ IdeasSnapshot
  \/ DetailsTyped \/ FindLeads \/ FindLeadsSettles \/ SaveLeadClicked \/ WriteSettles

SpecForm == InitStore /\ [][NextForm]_vars

\* C27: a lead that Save Lead stores has the description that was submitted
\* with the request whose analysis is on the page.
C27_SavedDetailsWereAnalysed ==
  [][\A idea \in store' \ store : idea.propertyDetails = details]_vars


(***************************************************************************)
(* The analyses on their way through the store: saveIdea and               *)
(* runAutomatedLeadSearch write them as text (lines 1036 and 1131), the    *)
(* leads subscription hands the documents to the page (948-953), and the   *)
(* deal flow reads the text with JSON.parse (lines 416 and 419).           *)
(***************************************************************************)
\* The page as it is when the user has been reported, both subscriptions have
\* delivered their first snapshot and findLeads has put an analysis on the page.
InitRound ==
  /\ ApiAtRest /\ ParserAtRest
  /\ app = TRUE /\ initialAuthToken = FALSE /\ authUser = "u1"
  /\ mounted = "mounted" /\ authQueue = <<>> /\ signIn = "none" /\ sessionEnds = 0
  /\ endedSession = NullUser
  /\ userId = "u1" /\ isAuthReady = TRUE /\ dbInstance = TRUE
  /\ savedIdeas = {} /\ savedContacts = {}
  /\ subs = {Sub("ideas", "u1", 1), Sub("contacts", "u1", 1)} /\ effRun = 1
  /\ ideasInbox = <<>> /\ contactsInbox = <<>>
  /\ store = {} /\ nextId = 1 /\ opLog = {}
  /\ auto = IdleAuto /\ imp = IdleImport /\ isAutoGenerating = FALSE
  /\ isLoading = FALSE /\ isGeneratingOffer = FALSE /\ isMarketAnalysisLoading = FALSE
  /\ results \in {FullAnalysis, AnalysisNoOfferRange}
  /\ error = JNull
  /\ showOfferLetterModal = FALSE /\ offerLetterContent = JStr("")
  /\ marketTrendAnalysis = JStr("") /\ compsData = 0
  /\ running = [c \in AiControls |-> 0]
  /\ showIdeaDeleteModal = FALSE /\ ideaToDelete = 0
  /\ showContactDeleteModal = FALSE /\ contactToDelete = 0
  /\ outstanding = <<>>
  /\ toast = NoToast
  /\ lastOp = Outcome("findLeads", FALSE, "")
  /\ purchasePrice = "" /\ salesPrice = "" /\ closingCosts = "" /\ rehabCosts = ""
  /\ holdingCosts = "" /\ profit = 0 /\ roi = 0
  /\ propertyDetails = "" /\ details = ""

NextRound ==
  \/ IdeasSnapshot \/ SaveLeadClicked \/ WriteSettles
  \/ RunAutomatedLeadSearch \/ SearchApiSettles \/ SearchWriteSettles

SpecRound == InitRound /\ [][NextRound]_vars

\* C24: the generatedResults of every lead of the list, read with JSON.parse,
\* is the value that saveIdea or runAutomatedLeadSearch was given: the same
\* keys with the same values, the lists with the same elements in order.
C24_AnalysisReadBackAsSaved ==
  \A idea \in savedIdeas :
    /\ idea.generatedResults.jt = "string"
    /\ JsonParse(idea.generatedResults) = Returned(idea.genResults)

\* The list holds a lead that Save Lead stored and one that the search stored,
\* each with the five or four keys of its analysis.
C24_Witness ==
  /\ \E idea \in savedIdeas :
       /\ idea.propertyDetails = GeneratedLeads[1]
       /\ Get(JsonParse(idea.generatedResults).value, "dueDiligenceChecklist")
            = JArr(<<JStr("Title search")>>)
  /\ \E idea \in savedIdeas :
       /\ idea.propertyDetails = ""
       /\ idea.genResults \in {FullAnalysis, AnalysisNoOfferRange}

====
